---- MODULE Spec2Model ----
(***************************************************************************)
(* Entra -> Action1 connector: the name matcher and patch builder          *)
(* (mapping/deviceMapper.js) and the sync orchestrator                     *)
(* (sync/syncEngine.js, runSync).                                          *)
(*                                                                         *)
(* JavaScript strings are sequences of one-character strings, so that      *)
(* trim / toLowerCase / indexOf / slice / startsWith are computed and not  *)
(* assumed.  The other JavaScript values are records [t, v] with t the     *)
(* typeof tag.                                                             *)
(***************************************************************************)
EXTENDS Integers, Sequences, FiniteSets, TLC

(***************************************************************************)
(* JavaScript values                                                       *)
(***************************************************************************)
UNDEF == [t |-> "undefined", v |-> 0]
NULL == [t |-> "null", v |-> 0]
Str(s) == [t |-> "string", v |-> s]
Num(n) == [t |-> "number", v |-> n]
Bool(b) == [t |-> "boolean", v |-> b]
Obj(o) == [t |-> "object", v |-> o]

\* JavaScript truthiness (the values of `a || b`, `!a`, `if (a)`).
Truthy(x) ==
  CASE x.t = "undefined" -> FALSE
    [] x.t = "null" -> FALSE
    [] x.t = "string" -> x.v # <<>>
    [] x.t = "number" -> x.v # 0
    [] x.t = "boolean" -> x.v
    [] OTHER -> TRUE

\* a || b
JsOr(a, b) == IF Truthy(a) THEN a ELSE b

\* x?.[prop] on a record: undefined when the property is absent.
GetProp(x, prop) == IF prop \in DOMAIN x THEN x[prop] ELSE UNDEF

(***************************************************************************)
(* String primitives                                                       *)
(***************************************************************************)
UpperChars == <<"A", "B", "C", "D", "E", "F", "G", "H", "I", "J", "K", "L", "M",
                "N", "O", "P", "Q", "R", "S", "T", "U", "V", "W", "X", "Y", "Z">>
LowerChars == <<"a", "b", "c", "d", "e", "f", "g", "h", "i", "j", "k", "l", "m",
                "n", "o", "p", "q", "r", "s", "t", "u", "v", "w", "x", "y", "z">>

IsSpace(c) == c \in {" ", "\t", "\n"}

\* the lower-case letter of every upper-case letter
LowerOf ==
  [c \in {UpperChars[n] : n \in DOMAIN UpperChars} |->
     LowerChars[CHOOSE n \in DOMAIN UpperChars : UpperChars[n] = c]]

LowerChar(c) == IF c \in DOMAIN LowerOf THEN LowerOf[c] ELSE c

\* String.prototype.toLowerCase
ToLowerCase(s) == [k \in 1..Len(s) |-> LowerChar(s[k])]

\* String.prototype.trim
Trim(s) ==
  LET keep == {k \in 1..Len(s) : ~IsSpace(s[k])}
  IN IF keep = {} THEN <<>>
     ELSE LET lo == CHOOSE k \in keep : \A j \in keep : k <= j
              hi == CHOOSE k \in keep : \A j \in keep : k >= j
          IN SubSeq(s, lo, hi)

\* String.prototype.indexOf for a one-character needle: 0-based, -1 if absent.
IndexOf(s, c) ==
  LET hits == {k \in 1..Len(s) : s[k] = c}
  IN IF hits = {} THEN -1
     ELSE (CHOOSE k \in hits : \A j \in hits : k <= j) - 1

\* String.prototype.slice(0, end) for 0 <= end.
SliceTo(s, end) == SubSeq(s, 1, IF end > Len(s) THEN Len(s) ELSE end)

\* String.prototype.startsWith
StartsWith(s, prefix) ==
  /\ Len(s) >= Len(prefix)
  /\ SubSeq(s, 1, Len(prefix)) = prefix

\* String(x) for the values names take: strings, null, undefined.
ToJsString(x) ==
  CASE x.t = "string" -> x.v
    [] x.t = "null" -> <<"n", "u", "l", "l">>
    [] x.t = "undefined" -> <<"u", "n", "d", "e", "f", "i", "n", "e", "d">>
    [] OTHER -> <<>>

(***************************************************************************)
(* mapping/deviceMapper.js                                                 *)
(***************************************************************************)
normalizeName(str) ==
  IF str.t \in {"null", "undefined"} THEN <<>>
  ELSE ToLowerCase(Trim(ToJsString(str)))

stripFqdnMutNoStrip(name) == Trim(ToJsString(JsOr(name, Str(<<>>))))

stripFqdn(name) ==
  LET s == Trim(ToJsString(JsOr(name, Str(<<>>))))
      dot == IndexOf(s, ".")
  IN IF dot > 0 THEN SliceTo(s, dot) ELSE s

normalizeShortName(str) == normalizeName(Str(stripFqdn(str)))

getAction1EndpointName(endpoint) ==
  IF ~Truthy(endpoint) \/ endpoint.t # "object" THEN Str(<<>>)
  ELSE JsOr(GetProp(endpoint.v, "device_name"),
            JsOr(GetProp(endpoint.v, "name"), Str(<<>>)))

CustomPrefix == <<"c", "u", "s", "t", "o", "m", ":">>

toCustomKey(action1CustomAttribute) ==
  LET raw == Trim(ToJsString(JsOr(action1CustomAttribute, Str(<<>>))))
  IN IF raw = <<>> THEN <<>>
     ELSE IF StartsWith(ToLowerCase(raw), CustomPrefix) THEN raw
     ELSE CustomPrefix \o raw

\* Map<string, Endpoint[]> as a function from keys to sequences.
EmptyMap == [k \in {} |-> <<>>]

\* index.get(key); an absent key and an empty list are treated alike by
\* every caller (`c && c.length > 0`, `!c || c.length === 0`).
MapGet(index, key) == IF key \in DOMAIN index THEN index[key] ELSE <<>>

\* if (!index.has(key)) index.set(key, []); index.get(key).push(ep)
IndexPush(index, key, ep) ==
  IF key \in DOMAIN index
  THEN [index EXCEPT ![key] = Append(@, ep)]
  ELSE index @@ (key :> <<ep>>)

buildEndpointIndex(endpoints) ==
  LET step[n \in 0..Len(endpoints)] ==
        IF n = 0 THEN EmptyMap
        ELSE LET ep == endpoints[n]
                 key == normalizeName(getAction1EndpointName(ep))
             IN IF key = <<>> THEN step[n - 1]
                ELSE IndexPush(step[n - 1], key, ep)
  IN step[Len(endpoints)]

buildEndpointShortIndex(endpoints) ==
  LET step[n \in 0..Len(endpoints)] ==
        IF n = 0 THEN EmptyMap
        ELSE LET ep == endpoints[n]
                 key == normalizeShortName(getAction1EndpointName(ep))
             IN IF key = <<>> THEN step[n - 1]
                ELSE IndexPush(step[n - 1], key, ep)
  IN step[Len(endpoints)]

EmptyMatch == [matched |-> <<>>, unmatchedEntra |-> <<>>, ambiguous |-> <<>>]

\* One iteration of the device loop of matchDevices (lines 71-106).
matchOneMutPickFirst(acc, dev, fullIndex, shortIndex) ==
  LET entraName == JsOr(GetProp(dev, "displayName"), Str(<<>>))
      fullKey == normalizeName(entraName)
      fullCandidates == MapGet(fullIndex, fullKey)
      shortKey == normalizeShortName(entraName)
      shortCandidates == MapGet(shortIndex, shortKey)
  IN IF fullKey = <<>>
     THEN [acc EXCEPT !.unmatchedEntra = Append(@, dev)]
     ELSE IF Len(fullCandidates) > 0
     THEN [acc EXCEPT !.matched =
             Append(@, [entraDevice |-> dev, endpoint |-> fullCandidates[1],
                        matchType |-> "full"])]
     ELSE IF Len(shortCandidates) = 0
     THEN [acc EXCEPT !.unmatchedEntra = Append(@, dev)]
     ELSE [acc EXCEPT !.matched =
             Append(@, [entraDevice |-> dev, endpoint |-> shortCandidates[1],
                        matchType |-> "short"])]

\* a matcher that gives an endpoint to the first device identifying it and
\* leaves later devices with that endpoint unmatched
matchOneMutClaimOnce(acc, dev, fullIndex, shortIndex) ==
  LET entraName == JsOr(GetProp(dev, "displayName"), Str(<<>>))
      fullKey == normalizeName(entraName)
      fullCandidates == MapGet(fullIndex, fullKey)
      shortKey == normalizeShortName(entraName)
      shortCandidates == MapGet(shortIndex, shortKey)
      taken(ep) == \E n \in DOMAIN acc.matched : acc.matched[n].endpoint = ep
  IN IF fullKey = <<>>
     THEN [acc EXCEPT !.unmatchedEntra = Append(@, dev)]
     ELSE IF Len(fullCandidates) > 0
     THEN IF Len(fullCandidates) > 1
          THEN [acc EXCEPT !.ambiguous =
                  Append(@, [entraDevice |-> dev, candidates |-> fullCandidates,
                             reason |-> "duplicate_full"])]
          ELSE IF taken(fullCandidates[1])
          THEN [acc EXCEPT !.unmatchedEntra = Append(@, dev)]
          ELSE [acc EXCEPT !.matched =
                  Append(@, [entraDevice |-> dev, endpoint |-> fullCandidates[1],
                             matchType |-> "full"])]
     ELSE IF Len(shortCandidates) = 0
     THEN [acc EXCEPT !.unmatchedEntra = Append(@, dev)]
     ELSE IF Len(shortCandidates) > 1
     THEN [acc EXCEPT !.ambiguous =
             Append(@, [entraDevice |-> dev, candidates |-> shortCandidates,
                        reason |-> "duplicate_short"])]
     ELSE IF taken(shortCandidates[1])
     THEN [acc EXCEPT !.unmatchedEntra = Append(@, dev)]
     ELSE [acc EXCEPT !.matched =
             Append(@, [entraDevice |-> dev, endpoint |-> shortCandidates[1],
                        matchType |-> "short"])]

matchOne(acc, dev, fullIndex, shortIndex) ==
  LET entraName == JsOr(GetProp(dev, "displayName"), Str(<<>>))
      fullKey == normalizeName(entraName)
      fullCandidates == MapGet(fullIndex, fullKey)
      shortKey == normalizeShortName(entraName)
      shortCandidates == MapGet(shortIndex, shortKey)
  IN IF fullKey = <<>>
     THEN [acc EXCEPT !.unmatchedEntra = Append(@, dev)]
     ELSE IF Len(fullCandidates) > 0
     THEN IF Len(fullCandidates) > 1
          THEN [acc EXCEPT !.ambiguous =
                  Append(@, [entraDevice |-> dev, candidates |-> fullCandidates,
                             reason |-> "duplicate_full"])]
          ELSE [acc EXCEPT !.matched =
                  Append(@, [entraDevice |-> dev, endpoint |-> fullCandidates[1],
                             matchType |-> "full"])]
     ELSE IF Len(shortCandidates) = 0
     THEN [acc EXCEPT !.unmatchedEntra = Append(@, dev)]
     ELSE IF Len(shortCandidates) > 1
     THEN [acc EXCEPT !.ambiguous =
             Append(@, [entraDevice |-> dev, candidates |-> shortCandidates,
                        reason |-> "duplicate_short"])]
     ELSE [acc EXCEPT !.matched =
             Append(@, [entraDevice |-> dev, endpoint |-> shortCandidates[1],
                        matchType |-> "short"])]

\* the device loop dropping the first device
matchDevicesMutSkipFirst(entraDevices, action1Endpoints) ==
  LET fullIndex == buildEndpointIndex(action1Endpoints)
      shortIndex == buildEndpointShortIndex(action1Endpoints)
      step[n \in 0..Len(entraDevices)] ==
        IF n <= 1 THEN EmptyMatch
        ELSE matchOne(step[n - 1], entraDevices[n], fullIndex, shortIndex)
  IN step[Len(entraDevices)]

matchDevices(entraDevices, action1Endpoints) ==
  LET fullIndex == buildEndpointIndex(action1Endpoints)
      shortIndex == buildEndpointShortIndex(action1Endpoints)
      step[n \in 0..Len(entraDevices)] ==
        IF n = 0 THEN EmptyMatch
        ELSE matchOne(step[n - 1], entraDevices[n], fullIndex, shortIndex)
  IN step[Len(entraDevices)]

\* One iteration of the mapping loop of buildEndpointPatch (lines 117-133).
\* A property name is a plain string ("" is the only falsy one); the target
\* attribute name is a JavaScript string value.
patchOneMutSkipFalsy(patch, entraDevice, m) ==
  LET entraProp == m.entraProperty
      action1Attr == m.action1CustomAttribute
      value == GetProp(entraDevice, entraProp)
      key == toCustomKey(action1Attr)
  IN IF entraProp = "" \/ ~Truthy(action1Attr) THEN patch
     ELSE IF ~Truthy(value) THEN patch
     ELSE IF value.t = "string" /\ Trim(value.v) = <<>> THEN patch
     ELSE IF key = <<>> THEN patch
     ELSE IF key \in DOMAIN patch THEN [patch EXCEPT ![key] = value]
     ELSE patch @@ (key :> value)

\* an iteration that keeps the value a key already has
patchOneMutKeepFirst(patch, entraDevice, m) ==
  LET entraProp == m.entraProperty
      action1Attr == m.action1CustomAttribute
      value == GetProp(entraDevice, entraProp)
      key == toCustomKey(action1Attr)
  IN IF entraProp = "" \/ ~Truthy(action1Attr) THEN patch
     ELSE IF value.t \in {"null", "undefined"} THEN patch
     ELSE IF value.t = "string" /\ Trim(value.v) = <<>> THEN patch
     ELSE IF key = <<>> THEN patch
     ELSE IF key \in DOMAIN patch THEN patch
     ELSE patch @@ (key :> value)
patchOne(patch, entraDevice, m) ==
  LET entraProp == m.entraProperty
      action1Attr == m.action1CustomAttribute
      value == GetProp(entraDevice, entraProp)
      key == toCustomKey(action1Attr)
  IN IF entraProp = "" \/ ~Truthy(action1Attr) THEN patch
     ELSE IF value.t \in {"null", "undefined"} THEN patch
     ELSE IF value.t = "string" /\ Trim(value.v) = <<>> THEN patch
     ELSE IF key = <<>> THEN patch
     ELSE IF key \in DOMAIN patch THEN [patch EXCEPT ![key] = value]
     ELSE patch @@ (key :> value)

\* The object `patch` after the whole mapping loop.
patchObject(entraDevice, mappings) ==
  LET step[n \in 0..Len(mappings)] ==
        IF n = 0 THEN EmptyMap
        ELSE patchOne(step[n - 1], entraDevice, mappings[n])
  IN step[Len(mappings)]

buildEndpointPatchMutNoNull(entraDevice, mappings) ==
  Obj(patchObject(entraDevice, mappings))

buildEndpointPatch(entraDevice, mappings) ==
  LET patch == patchObject(entraDevice, mappings)
  IN IF Cardinality(DOMAIN patch) > 0 THEN Obj(patch) ELSE NULL

mapDevicesToPatches(entraDevices, action1Endpoints, mappings) ==
  LET m == matchDevices(entraDevices, action1Endpoints)
      step[n \in 0..Len(m.matched)] ==
        IF n = 0 THEN <<>>
        ELSE LET pair == m.matched[n]
                 patch == buildEndpointPatch(pair.entraDevice, mappings)
             IN IF ~Truthy(patch) THEN step[n - 1]
                ELSE Append(step[n - 1],
                       [endpointId |-> GetProp(pair.endpoint.v, "id"),
                        endpointName |-> getAction1EndpointName(pair.endpoint),
                        entraName |-> GetProp(pair.entraDevice, "displayName"),
                        matchType |-> pair.matchType,
                        patch |-> patch])
  IN [matched |-> m.matched, patches |-> step[Len(m.matched)],
      unmatchedEntra |-> m.unmatchedEntra, ambiguous |-> m.ambiguous]

(***************************************************************************)
(* State                                                                   *)
(***************************************************************************)
VARIABLES
  \* a call of one of the pure functions of deviceMapper.js
  args,        \* [entraDevices, action1Endpoints, mappings, device]
  called,      \* "none" or the name of the function that was applied
  result,      \* its return value
  \* runSync
  pc,                   \* position of runSync between its awaits
  opts,                 \* normalizeOptions(options)
  jobs,                 \* getSyncJobs(config)
  i,                    \* index of the current job (1-based)
  action1Token,
  entraDevicesCache,    \* NULL (caching disabled) or Obj(Map key -> devices)
  totalPlannedPatches,
  totalAppliedPatches,
  jobResults,
  entraDevices,         \* locals of the current job iteration
  endpoints,
  mappingResult,
  patchesToProcess,
  limitedBy,
  applied,
  patchErrors,
  k,                    \* index of the current patch in patchesToProcess
  summary,              \* NULL until runSync returns
  calls,                \* collaborator invocations so far
  \* process.env, read when the modules are loaded and when runSync runs
  env,                  \* [CACHE_KEY_INCLUDE_TENANT_NAME, ALLOW_DUPLICATE_TENANTS]
  \* the configuration file and the last configuration command
  cfg,                  \* the parsed content of config.json
  cmd                   \* NULL or [name, threw, ...] of the command that ran last

vars == <<args, called, result, pc, opts, jobs, i, action1Token,
          entraDevicesCache, totalPlannedPatches, totalAppliedPatches,
          jobResults, entraDevices, endpoints, mappingResult, patchesToProcess,
          limitedBy, applied, patchErrors, k, summary, calls, env, cfg, cmd>>

cfgVars == <<cfg, cmd>>

pureVars == <<args, called, result>>

runVars == <<pc, opts, jobs, i, action1Token, entraDevicesCache,
             totalPlannedPatches, totalAppliedPatches, jobResults,
             entraDevices, endpoints, mappingResult, patchesToProcess, limitedBy,
             applied, patchErrors, k, summary, calls, env>>

(***************************************************************************)
(* Bounds and input pools                                                  *)
(***************************************************************************)
MaxDevices == 2       \* longest device list given to matchDevices
MaxEndpoints == 3     \* longest endpoint list given to matchDevices
MaxMappings == 2      \* longest mapping list given to buildEndpointPatch

Host1 == <<"h", "o", "s", "t", "1">>
Host1Upper == <<"H", "O", "S", "T", "1">>
DomainCom == <<".", "d", "o", "m", "a", "i", "n", ".", "c", "o", "m">>
DomainComUpper == <<".", "D", "o", "m", "a", "i", "n", ".", "C", "O", "M">>
OtherOrg == <<".", "o", "t", "h", "e", "r", ".", "o", "r", "g">>
Host1Fqdn == Host1 \o DomainCom
Blank == <<" ">>

\* All sequences over S of length lo..hi.
SeqsOf(S, lo, hi) == UNION {[1..n -> S] : n \in lo..hi}

\* displayName values of directory devices (entraClient.js:323 gives a
\* string or null).
DeviceNames == {Str(Host1Fqdn), Str(Host1Upper), Str(Blank), NULL}

\* Name fields of platform endpoints: device_name, or name when device_name
\* is missing.
EndpointShapes ==
  { [device_name |-> Str(Host1)],
    [name |-> Str(Host1 \o DomainComUpper)],
    [device_name |-> Str(Host1 \o OtherOrg)],
    [device_name |-> Str(Host1Fqdn)],
    [device_name |-> Str(Blank)] }

\* Endpoint n of a listing: the shape plus its identifier.
MkEndpoint(shape, n) == Obj(shape @@ [id |-> Num(n)])

MkDevice(name) == [displayName |-> name, memberOf |-> Str(<<"G">>)]

GroupsAttr == <<"E", "n", "t", "r", "a", " ", "G", "r", "o", "u", "p", "s">>

\* config/defaultMappings.js DEFAULT_MAPPINGS, first entry
DefaultMappings ==
  << [entraProperty |-> "memberOf", action1CustomAttribute |-> Str(GroupsAttr)] >>

DeviceLists ==
  {[n \in DOMAIN names |-> MkDevice(names[n])] :
     names \in SeqsOf(DeviceNames, 0, MaxDevices)}

EndpointLists ==
  {[n \in DOMAIN shapes |-> MkEndpoint(shapes[n], n)] :
     shapes \in SeqsOf(EndpointShapes, 0, MaxEndpoints)}

NoArgs == [entraDevices |-> <<>>, action1Endpoints |-> <<>>,
           mappings |-> <<>>, device |-> 0]

\* runSync has not been called.
\* neither variable is set: both flags are off
DefaultEnv == [CACHE_KEY_INCLUDE_TENANT_NAME |-> FALSE,
               ALLOW_DUPLICATE_TENANTS |-> FALSE]

\* no configuration command is under study
CfgIdle == cfg = NULL /\ cmd = NULL

RunIdle ==
  /\ pc = "idle"
  /\ opts = NULL
  /\ jobs = <<>>
  /\ i = 0
  /\ action1Token = NULL
  /\ entraDevicesCache = NULL
  /\ totalPlannedPatches = 0
  /\ totalAppliedPatches = 0
  /\ jobResults = <<>>
  /\ entraDevices = <<>>
  /\ endpoints = <<>>
  /\ mappingResult = NULL
  /\ patchesToProcess = <<>>
  /\ limitedBy = NULL
  /\ applied = <<>>
  /\ patchErrors = <<>>
  /\ k = 0
  /\ summary = NULL
  /\ calls = [token |-> 0, listDevices |-> 0, listEndpoints |-> 0, patch |-> 0]

(***************************************************************************)
(* The name matcher applied to every device list and endpoint list         *)
(***************************************************************************)
InitMatch ==
  /\ args \in {[NoArgs EXCEPT !.entraDevices = ds, !.action1Endpoints = es] :
                 ds \in DeviceLists, es \in EndpointLists}
  /\ called = "none"
  /\ result = NULL
  /\ RunIdle
  /\ env = DefaultEnv
  /\ CfgIdle

CallMatchDevices ==
  /\ pc = "idle"
  /\ called = "none"
  /\ called' = "matchDevices"
  /\ result' = matchDevices(args.entraDevices, args.action1Endpoints)
  /\ UNCHANGED <<args, runVars, cfgVars>>

NextMatch == CallMatchDevices

SpecMatch == InitMatch /\ [][NextMatch]_vars

(***************************************************************************)
(* Properties of the name matcher                                          *)
(***************************************************************************)
MatchDone == called = "matchDevices"

Count(x, seq) == Cardinality({n \in DOMAIN seq : seq[n] = x})

DevicesOf(bucket) == [n \in DOMAIN bucket |-> bucket[n].entraDevice]

FullNameOf(ep) == normalizeName(getAction1EndpointName(ep))
ShortNameOf(ep) == normalizeShortName(getAction1EndpointName(ep))
DeviceName(dev) == JsOr(GetProp(dev, "displayName"), Str(<<>>))

\* positions of the endpoints with a given normalized full / short name
WithFullName(eps, key) == {n \in DOMAIN eps : FullNameOf(eps[n]) = key}
WithShortName(eps, key) == {n \in DOMAIN eps : ShortNameOf(eps[n]) = key}

\* C1: matchDevices is total and its buckets are disjoint: the three bucket
\* lengths add up to the number of devices, and every device occurs in the
\* buckets together exactly as often as it occurs in the input list.
C1_MatchTotal ==
  MatchDone =>
    LET ds == args.entraDevices
        m == DevicesOf(result.matched)
        u == result.unmatchedEntra
        a == DevicesOf(result.ambiguous)
    IN /\ Len(m) + Len(u) + Len(a) = Len(ds)
       /\ \A n \in DOMAIN ds :
            Count(ds[n], m) + Count(ds[n], u) + Count(ds[n], a) = Count(ds[n], ds)

\* two devices, one matched and one ambiguous
C1_Witness ==
  /\ MatchDone
  /\ Len(args.entraDevices) = 2
  /\ Len(result.matched) = 1
  /\ Len(result.ambiguous) = 1

\* C2: matchDevices never picks among equally-named endpoints: a 'full' pair
\* has exactly one endpoint with the device's normalized full name, a 'short'
\* pair has no endpoint with that full name and exactly one endpoint with the
\* device's normalized short name; the paired endpoint is that endpoint.
C2_NeverGuesses ==
  MatchDone =>
    \A n \in DOMAIN result.matched :
      LET pair == result.matched[n]
          eps == args.action1Endpoints
          name == DeviceName(pair.entraDevice)
          full == WithFullName(eps, normalizeName(name))
          short == WithShortName(eps, normalizeShortName(name))
      IN /\ pair.matchType \in {"full", "short"}
         /\ pair.matchType = "full" =>
              /\ Cardinality(full) = 1
              /\ \A e \in full : pair.endpoint = eps[e]
         /\ pair.matchType = "short" =>
              /\ full = {}
              /\ Cardinality(short) = 1
              /\ \A e \in short : pair.endpoint = eps[e]

\* a short match and a full match, each unique among three endpoints
C2_Witness ==
  /\ MatchDone
  /\ Len(args.action1Endpoints) = 3
  /\ \E n \in DOMAIN result.matched : result.matched[n].matchType = "short"
  /\ \E n \in DOMAIN result.matched : result.matched[n].matchType = "full"

IsAmbiguousFull(dev) ==
  /\ \E n \in DOMAIN result.ambiguous :
       /\ result.ambiguous[n].entraDevice = dev
       /\ result.ambiguous[n].reason = "duplicate_full"
  /\ \A n \in DOMAIN result.matched : result.matched[n].entraDevice # dev

\* C3 as stated: whenever two or more endpoints share a normalized full name,
\* every device with that normalized display name is ambiguous with reason
\* 'duplicate_full' and is not matched.
C3_Original ==
  MatchDone =>
    \A d \in DOMAIN args.entraDevices :
      LET dev == args.entraDevices[d]
          key == normalizeName(DeviceName(dev))
      IN Cardinality(WithFullName(args.action1Endpoints, key)) >= 2
           => IsAmbiguousFull(dev)

\* C3 amended: the same for a shared normalized full name that is not empty
\* (names that normalize to the empty string are not indexed, and a device
\* without a name is unmatched).
C3_AmbiguityPrecedence ==
  MatchDone =>
    \A d \in DOMAIN args.entraDevices :
      LET dev == args.entraDevices[d]
          key == normalizeName(DeviceName(dev))
      IN (key # <<>> /\ Cardinality(WithFullName(args.action1Endpoints, key)) >= 2)
           => IsAmbiguousFull(dev)

\* two endpoints share the device's non-empty full name and the device is
\* ambiguous
C3_Witness ==
  /\ MatchDone
  /\ \E d \in DOMAIN args.entraDevices :
       LET dev == args.entraDevices[d]
           key == normalizeName(DeviceName(dev))
       IN /\ key # <<>>
          /\ Cardinality(WithFullName(args.action1Endpoints, key)) >= 2
          /\ IsAmbiguousFull(dev)

NamedExactly(eps, s) == {n \in DOMAIN eps : getAction1EndpointName(eps[n]) = Str(s)}

MatchedShortWithHost1(dev) ==
  \E n \in DOMAIN result.matched :
    /\ result.matched[n].entraDevice = dev
    /\ getAction1EndpointName(result.matched[n].endpoint) = Str(Host1)
    /\ result.matched[n].matchType = "short"

\* C4 as stated: for every endpoint list with an endpoint named exactly
\* 'host1' and none named 'host1.domain.com', a device named
\* 'host1.domain.com' is matched with the endpoint named 'host1', type 'short'.
C4_Original ==
  MatchDone =>
    LET eps == args.action1Endpoints
    IN (NamedExactly(eps, Host1) # {} /\ NamedExactly(eps, Host1Fqdn) = {})
         => \A d \in DOMAIN args.entraDevices :
              args.entraDevices[d].displayName = Str(Host1Fqdn)
                => MatchedShortWithHost1(args.entraDevices[d])

\* C4 amended: the same when, in addition, the endpoint named 'host1' is the
\* only endpoint whose normalized short name is 'host1' and no endpoint has
\* the normalized full name 'host1.domain.com'.
C4_ShortFallback ==
  MatchDone =>
    LET eps == args.action1Endpoints
    IN (/\ NamedExactly(eps, Host1) # {}
        /\ NamedExactly(eps, Host1Fqdn) = {}
        /\ Cardinality(WithShortName(eps, Host1)) = 1
        /\ WithFullName(eps, Host1Fqdn) = {})
         => \A d \in DOMAIN args.entraDevices :
              args.entraDevices[d].displayName = Str(Host1Fqdn)
                => MatchedShortWithHost1(args.entraDevices[d])

\* 'host1.domain.com' matched by short name with 'host1' among other endpoints
C4_Witness ==
  /\ MatchDone
  /\ Len(args.action1Endpoints) >= 2
  /\ NamedExactly(args.action1Endpoints, Host1) # {}
  /\ \E d \in DOMAIN args.entraDevices :
       /\ args.entraDevices[d].displayName = Str(Host1Fqdn)
       /\ MatchedShortWithHost1(args.entraDevices[d])

(***************************************************************************)
(* The patch builder applied to every device and mapping list              *)
(***************************************************************************)
AttrG == <<"G">>
AttrCustomG == CustomPrefix \o <<"G">>
AttrC == <<"C">>
\* the prefix spelled with a capital letter
AttrUpperCustomG == <<"C", "u", "s", "t", "o", "m", ":", "G">>

\* Devices as listDevicesWithGroups shapes them (entraClient.js:322-333),
\* with the attribute values the blank-skip policy distinguishes.  The
\* property managementType is left out of the record: reading it gives
\* undefined.
PatchDevices ==
  { [displayName |-> Str(Host1Upper), memberOf |-> mo, isCompliant |-> ic,
     deviceOwnership |-> Str(<<>>)] :
      mo \in {Str(<<"A">>), Str(Blank), Num(0)}, ic \in {Bool(FALSE), NULL} }

\* Mappings as loadConfig accepts them: both fields non-empty strings
\* (defaultMappings.js:171-182).
MappingPool ==
  { [entraProperty |-> "memberOf", action1CustomAttribute |-> Str(AttrG)],
    [entraProperty |-> "isCompliant", action1CustomAttribute |-> Str(AttrCustomG)],
    [entraProperty |-> "memberOf", action1CustomAttribute |-> Str(AttrUpperCustomG)],
    [entraProperty |-> "isCompliant", action1CustomAttribute |-> Str(AttrC)],
    [entraProperty |-> "deviceOwnership", action1CustomAttribute |-> Str(AttrC)],
    [entraProperty |-> "managementType", action1CustomAttribute |-> Str(AttrC)] }

InitPatch ==
  /\ args \in {[NoArgs EXCEPT !.entraDevices = ds,
                              !.action1Endpoints =
                                 <<MkEndpoint([device_name |-> Str(Host1)], 1)>>,
                              !.mappings = ms] :
                 ds \in SeqsOf(PatchDevices, 1, MaxDevices),
                 ms \in SeqsOf(MappingPool, 1, MaxMappings)}
  /\ called = "none"
  /\ result = NULL
  /\ RunIdle
  /\ env = DefaultEnv
  /\ CfgIdle

CallBuildEndpointPatch ==
  /\ pc = "idle"
  /\ called = "none"
  /\ \E n \in DOMAIN args.entraDevices :
       /\ args' = [args EXCEPT !.device = n]
       /\ result' = buildEndpointPatch(args.entraDevices[n], args.mappings)
  /\ called' = "buildEndpointPatch"
  /\ UNCHANGED <<runVars, cfgVars>>

CallMapDevicesToPatches ==
  /\ pc = "idle"
  /\ called = "none"
  /\ called' = "mapDevicesToPatches"
  /\ result' = mapDevicesToPatches(args.entraDevices, args.action1Endpoints,
                                   args.mappings)
  /\ UNCHANGED <<args, runVars, cfgVars>>

NextPatch == CallBuildEndpointPatch \/ CallMapDevicesToPatches

SpecPatch == InitPatch /\ [][NextPatch]_vars

(***************************************************************************)
(* Properties of the patch builder                                         *)
(***************************************************************************)
PatchDone == called = "buildEndpointPatch"
MapDone == called = "mapDevicesToPatches"

\* null, undefined, or an empty / white-space-only string
IsBlankValue(x) ==
  \/ x.t \in {"null", "undefined"}
  \/ x.t = "string" /\ \A n \in DOMAIN x.v : IsSpace(x.v[n])

\* the keys and values of a returned patch (none when it is null)
KeysOf(r) == IF r.t = "object" THEN DOMAIN r.v ELSE {}

\* C5: buildEndpointPatch writes a mapping's target key only if the source
\* attribute is not null, undefined or a blank string, and a source value of
\* 0 or false is written unchanged: the returned patch has a key exactly when
\* some mapping to that key has a non-blank source value, the step of a
\* mapping with a blank source leaves the patch as it was, and right after
\* the step of a mapping whose source is 0 or false the patch holds that
\* value under the mapping's key (it stays in the result unless a later
\* mapping writes the same key).
C5_BlankSkip ==
  PatchDone =>
    LET dev == args.entraDevices[args.device]
        ms == args.mappings
        val(n) == GetProp(dev, ms[n].entraProperty)
        key(n) == toCustomKey(ms[n].action1CustomAttribute)
        upto(n) == patchObject(dev, SubSeq(ms, 1, n))
    IN /\ \A n \in DOMAIN ms :
            /\ IsBlankValue(val(n)) => upto(n) = upto(n - 1)
            /\ val(n) \in {Num(0), Bool(FALSE)} =>
                 /\ key(n) \in DOMAIN upto(n)
                 /\ upto(n)[key(n)] = val(n)
                 /\ (\A m \in DOMAIN ms : m > n => key(m) # key(n))
                      => /\ key(n) \in KeysOf(result)
                         /\ result.v[key(n)] = val(n)
       /\ \A kk \in KeysOf(result) :
            LET writers == {n \in DOMAIN ms : key(n) = kk /\ ~IsBlankValue(val(n))}
            IN /\ writers # {}
               /\ \E n \in writers : /\ \A m \in writers : m <= n
                                     /\ result.v[kk] = val(n)

\* a patch that holds a 0 or a false although another mapping was skipped
\* for a blank source
C5_Witness ==
  /\ PatchDone
  /\ result.t = "object"
  /\ Len(args.mappings) = 2
  /\ \E kk \in DOMAIN result.v : result.v[kk] \in {Num(0), Bool(FALSE)}
  /\ \E n \in DOMAIN args.mappings :
       IsBlankValue(GetProp(args.entraDevices[args.device],
                            args.mappings[n].entraProperty))

\* C6: buildEndpointPatch returns null or an object with at least one key,
\* never an empty object, and every item of the planned patch list built by
\* mapDevicesToPatches carries a non-empty patch object.
C6_NeverEmptyPatch ==
  /\ PatchDone => \/ result = NULL
                  \/ result.t = "object" /\ DOMAIN result.v # {}
  /\ MapDone => \A n \in DOMAIN result.patches :
                  /\ result.patches[n].patch.t = "object"
                  /\ DOMAIN result.patches[n].patch.v # {}

\* a planned list with an item, one matched device having been left out
\* because its patch was null
C6_Witness ==
  /\ MapDone
  /\ Len(result.patches) >= 1
  /\ Len(result.patches) < Len(result.matched)

\* the device the patch was built for, and the value and the key of its
\* n-th mapping
PatchedDevice == args.entraDevices[args.device]
SourceValue(n) == GetProp(PatchedDevice, args.mappings[n].entraProperty)
TargetKey(n) == toCustomKey(args.mappings[n].action1CustomAttribute)

\* mappings n < m of the list target the same platform attribute
SameTarget(n, m) ==
  /\ n \in DOMAIN args.mappings
  /\ m \in DOMAIN args.mappings
  /\ n < m
  /\ TargetKey(n) = TargetKey(m)

\* no mapping after the m-th writes the key of the m-th
LastWriter(m) ==
  \A l \in DOMAIN args.mappings :
    (l > m /\ TargetKey(l) = TargetKey(m)) => IsBlankValue(SourceValue(l))

\* C25 as stated: when two mappings target the same platform attribute, the
\* patch holds, for that attribute, the value of the later mapping.
C25_Original ==
  PatchDone =>
    \A n, m \in DOMAIN args.mappings :
      (SameTarget(n, m) /\ LastWriter(m)) =>
        /\ TargetKey(m) \in KeysOf(result)
        /\ result.v[TargetKey(m)] = SourceValue(m)

\* C25 amended: when two mappings target the same platform attribute and the
\* later one has a source value that is not blank, the patch holds the value
\* of the later one (of the last such one, if more follow); when the later one
\* has a blank source value it is skipped and the patch keeps the value of
\* the earlier one.
C25_OverwriteOrder ==
  PatchDone =>
    \A n, m \in DOMAIN args.mappings :
      (SameTarget(n, m) /\ LastWriter(m)) =>
        /\ ~IsBlankValue(SourceValue(m)) =>
             /\ TargetKey(m) \in KeysOf(result)
             /\ result.v[TargetKey(m)] = SourceValue(m)
        /\ (/\ IsBlankValue(SourceValue(m))
            /\ ~IsBlankValue(SourceValue(n))
            /\ \A l \in DOMAIN args.mappings :
                 (n < l /\ l < m /\ TargetKey(l) = TargetKey(n))
                   => IsBlankValue(SourceValue(l))) =>
             /\ TargetKey(n) \in KeysOf(result)
             /\ result.v[TargetKey(n)] = SourceValue(n)

\* two mappings wrote different values under one key and the patch holds
\* the later one
C25_Witness ==
  /\ PatchDone
  /\ \E n, m \in DOMAIN args.mappings :
       /\ SameTarget(n, m)
       /\ ~IsBlankValue(SourceValue(n))
       /\ ~IsBlankValue(SourceValue(m))
       /\ SourceValue(n) # SourceValue(m)
       /\ args.mappings[n].action1CustomAttribute
            # args.mappings[m].action1CustomAttribute
       /\ result.v[TargetKey(m)] = SourceValue(m)
\* the attribute name a mapping spells, without surrounding blanks and
\* without the prefix
BareName(n) ==
  LET raw == Trim(args.mappings[n].action1CustomAttribute.v)
  IN IF StartsWith(ToLowerCase(raw), CustomPrefix)
       THEN SubSeq(raw, Len(CustomPrefix) + 1, Len(raw))
       ELSE raw

\* C26 as stated: every key of a patch built by buildEndpointPatch starts
\* with the prefix 'custom:', and two mappings that spell the same attribute,
\* with or without the prefix, yield the same key.
C26_Original ==
  PatchDone =>
    /\ result # NULL =>
         \A key \in KeysOf(result) : StartsWith(key, CustomPrefix)
    /\ \A n, m \in DOMAIN args.mappings :
         BareName(n) = BareName(m) => TargetKey(n) = TargetKey(m)
(***************************************************************************)
(* sync/syncEngine.js: options, configuration and collaborators            *)
(***************************************************************************)
MaxRunDevices == 3     \* longest device list the directory returns in a run
MaxPerJobLimit == 2    \* largest explicit maxPatchesPerJob
MaxTotalLimit == 3     \* largest explicit maxTotalPatches

DefaultMaxPatchesPerJob == 50
DefaultMaxTotalPatches == 200
DefaultEndpointPageSize == 50

\* Number.isFinite on the values an option takes
IsFiniteNumber(x) == x.t = "number"

\* Boolean(x)
ToBoolean(x) == Truthy(x)

normalizeOptions(options) ==
  [dryRun |-> IF options.dryRun # UNDEF THEN ToBoolean(options.dryRun) ELSE TRUE,
   cacheEntraDevices |-> IF options.cacheEntraDevices # UNDEF
                         THEN ToBoolean(options.cacheEntraDevices) ELSE TRUE,
   maxPatchesPerJob |-> IF IsFiniteNumber(options.maxPatchesPerJob)
                        THEN options.maxPatchesPerJob.v ELSE DefaultMaxPatchesPerJob,
   maxTotalPatches |-> IF IsFiniteNumber(options.maxTotalPatches)
                       THEN options.maxTotalPatches.v ELSE DefaultMaxTotalPatches,
   stopOnJobError |-> ToBoolean(options.stopOnJobError),
   stopOnPatchError |-> ToBoolean(options.stopOnPatchError),
   endpointPageSize |-> IF IsFiniteNumber(options.endpointPageSize)
                        THEN options.endpointPageSize.v ELSE DefaultEndpointPageSize]

\* index.js: the numeric flags are rejected unless positive integers
isFinitePositiveInt(n) == n.t = "number" /\ n.v > 0

\* The options objects runSync is given: every flag may be omitted; a limit
\* that is given has passed isFinitePositiveInt.  The limits take the
\* smallest value and the values at the bound.
RawOptions ==
  { o \in [dryRun : {UNDEF, Bool(TRUE), Bool(FALSE)},
           cacheEntraDevices : {UNDEF, Bool(FALSE)},
           maxPatchesPerJob : {UNDEF} \cup {Num(n) : n \in {0, 1, MaxPerJobLimit}},
           maxTotalPatches : {UNDEF} \cup {Num(n) : n \in {0, 1, MaxTotalLimit - 1, MaxTotalLimit}},
           stopOnJobError : {UNDEF, Bool(TRUE)},
           stopOnPatchError : {UNDEF, Bool(TRUE)},
           endpointPageSize : {UNDEF}] :
      /\ o.maxPatchesPerJob # UNDEF => isFinitePositiveInt(o.maxPatchesPerJob)
      /\ o.maxTotalPatches # UNDEF => isFinitePositiveInt(o.maxTotalPatches) }

\* Configurations: one tenant with two organizations in one target scope,
\* two tenants with one organization each, and one directory tenant declared
\* twice under two names (loadConfig accepts the last one only when
\* ALLOW_DUPLICATE_TENANTS is set).
TenantA(targets) == [name |-> "Tenant A", tenantId |-> "tid-a", clientId |-> "cid-a",
                     targets |-> targets]
TenantB(targets) == [name |-> "Tenant B", tenantId |-> "tid-b", clientId |-> "cid-b",
                     targets |-> targets]
TenantA2(targets) == [name |-> "Tenant A2", tenantId |-> "tid-a", clientId |-> "cid-a",
                      targets |-> targets]
Target(orgs) == [organizationIds |-> orgs, mappings |-> DefaultMappings]

Configs ==
  { [tenants |-> <<TenantA(<<Target(<<"org1", "org2">>)>>)>>],
    [tenants |-> <<TenantA(<<Target(<<"org1">>)>>), TenantB(<<Target(<<"org2">>)>>)>>],
    [tenants |-> <<TenantA(<<Target(<<"org1">>)>>), TenantA2(<<Target(<<"org2">>)>>)>>] }

\* the tenantId check of loadConfig (lines 109-117)
DuplicateTenantIds(config) ==
  \E a, b \in DOMAIN config.tenants :
    a < b /\ config.tenants[a].tenantId = config.tenants[b].tenantId

Envs == [CACHE_KEY_INCLUDE_TENANT_NAME : BOOLEAN, ALLOW_DUPLICATE_TENANTS : BOOLEAN]

\* the configurations of the pool that load under environment e
RunConfigs(e) ==
  {c \in Configs : DuplicateTenantIds(c) => e.ALLOW_DUPLICATE_TENANTS}

\* flattening of a sequence of sequences, in order
RECURSIVE Flatten(_)
Flatten(ss) == IF ss = <<>> THEN <<>> ELSE Head(ss) \o Flatten(Tail(ss))

getSyncJobs(config) ==
  Flatten([t \in DOMAIN config.tenants |->
    LET tenant == config.tenants[t]
    IN Flatten([r \in DOMAIN tenant.targets |->
         LET target == tenant.targets[r]
         IN [o \in DOMAIN target.organizationIds |->
               [tenant |-> tenant,
                organizationId |-> target.organizationIds[o],
                mappings |-> target.mappings]]])])

\* process.env.CACHE_KEY_INCLUDE_TENANT_NAME === '1'
includeName == env.CACHE_KEY_INCLUDE_TENANT_NAME

\* the cache key of a job's tenant
tenantKey(tenant) ==
  IF includeName THEN <<tenant.tenantId, tenant.clientId, tenant.name>>
  ELSE <<tenant.tenantId, tenant.clientId>>

Digits == <<"1", "2", "3", "4", "5", "6", "7", "8", "9">>
HostN(n) == <<"h", Digits[n]>>
HostFqdnN(n) == <<"H", Digits[n], ".", "x">>

\* What listDevicesWithGroups may return: the first n devices of the
\* directory; device n is named Hn.x and is in group "A".
RunDevices(n) ==
  [j \in 1..n |-> [displayName |-> Str(HostFqdnN(j)), memberOf |-> Str(<<"A">>)]]

RunDeviceLists == {RunDevices(n) : n \in {0, MaxRunDevices - 1, MaxRunDevices}}

\* A directory in which the last device has the short name of the first
\* one under another domain: both identify the endpoint h1.
HostOtherFqdnN(n) == <<"H", Digits[n], ".", "y">>

SharedNameDevices(n) ==
  [j \in 1..n |-> IF j = n /\ n > 1
                  THEN [displayName |-> Str(HostOtherFqdnN(1)), memberOf |-> Str(<<"A">>)]
                  ELSE RunDevices(n)[j]]

\* What listManagedEndpoints may return: no endpoint, or one endpoint hn
\* per directory device, or the same with a first record that has no id.
RunEndpoints(n) == [j \in 1..n |-> MkEndpoint([device_name |-> Str(HostN(j))], j)]

RunEndpointsNoId(n) ==
  [j \in 1..n |-> IF j = 1 THEN Obj([device_name |-> Str(HostN(j))])
                  ELSE RunEndpoints(n)[j]]

RunEndpointLists ==
  {RunEndpoints(0), RunEndpoints(MaxRunDevices), RunEndpointsNoId(MaxRunDevices)}

NoCalls == [token |-> 0, listDevices |-> 0, listEndpoints |-> 0, patch |-> 0]

(***************************************************************************)
(* runSync                                                                 *)
(***************************************************************************)
\* runSync has normalized its options, derived the jobs and asked for the
\* shared platform token (lines 46-52).
\* The state in which runSync is called.  `directory` is the device list
\* of the directory when the run is about one given directory, and empty
\* otherwise.
InitRunWith(directory) ==
  /\ args = [NoArgs EXCEPT !.entraDevices = directory]
  /\ called = "none"
  /\ result = NULL
  /\ pc = "token"
  /\ opts \in {normalizeOptions(o) : o \in RawOptions}
  /\ CfgIdle
  /\ env \in Envs
  /\ jobs \in {getSyncJobs(c) : c \in RunConfigs(env)}
  /\ i = 0
  /\ action1Token = NULL
  /\ entraDevicesCache = NULL
  /\ totalPlannedPatches = 0
  /\ totalAppliedPatches = 0
  /\ jobResults = <<>>
  /\ entraDevices = <<>>
  /\ endpoints = <<>>
  /\ mappingResult = NULL
  /\ patchesToProcess = <<>>
  /\ limitedBy = NULL
  /\ applied = <<>>
  /\ patchErrors = <<>>
  /\ k = 0
  /\ summary = NULL
  /\ calls = NoCalls

InitRun == InitRunWith(<<>>)

\* the locals of a job iteration go out of scope
ResetLocals ==
  /\ entraDevices' = <<>>
  /\ endpoints' = <<>>
  /\ mappingResult' = NULL
  /\ patchesToProcess' = <<>>
  /\ limitedBy' = NULL
  /\ applied' = <<>>
  /\ patchErrors' = <<>>
  /\ k' = 0

\* lines 221-233
Summary(results, planned, appliedTotal) ==
  Obj([dryRun |-> opts.dryRun, jobs |-> Len(jobs),
       totalPlannedPatches |-> planned, totalAppliedPatches |-> appliedTotal,
       results |-> results])

\* a loop that goes on to the next job whatever `brk` says
EndIterationMutNoBreak(results, planned, appliedTotal, brk) ==
  /\ jobResults' = results
  /\ totalPlannedPatches' = planned
  /\ totalAppliedPatches' = appliedTotal
  /\ ResetLocals
  /\ IF i + 1 > Len(jobs)
     THEN /\ pc' = "returned"
          /\ i' = i
          /\ summary' = Summary(results, planned, appliedTotal)
     ELSE /\ pc' = "devices"
          /\ i' = i + 1
          /\ summary' = NULL

\* a loop whose next job starts before the result of this one is in the list
EndIterationMutLateResult(results, planned, appliedTotal, brk) ==
  /\ totalPlannedPatches' = planned
  /\ totalAppliedPatches' = appliedTotal
  /\ ResetLocals
  /\ IF brk \/ i + 1 > Len(jobs)
     THEN /\ pc' = "returned"
          /\ i' = i
          /\ jobResults' = results
          /\ summary' = Summary(results, planned, appliedTotal)
     ELSE /\ pc' = "devices"
          /\ i' = i + 1
          /\ jobResults' = jobResults
          /\ summary' = NULL
\* The end of a loop iteration: the result has been pushed; `brk` is the
\* break of line 216.  The loop goes on with the next job or runSync returns
\* the summary.
EndIteration(results, planned, appliedTotal, brk) ==
  /\ jobResults' = results
  /\ totalPlannedPatches' = planned
  /\ totalAppliedPatches' = appliedTotal
  /\ ResetLocals
  /\ IF brk \/ i + 1 > Len(jobs)
     THEN /\ pc' = "returned"
          /\ i' = i
          /\ summary' = Summary(results, planned, appliedTotal)
     ELSE /\ pc' = "devices"
          /\ i' = i + 1
          /\ summary' = NULL

\* a catch that always breaks out of the job loop
JobFailedMutAlwaysStop(msg) ==
  EndIteration(Append(jobResults,
                 [tenantName |-> jobs[i].tenant.name,
                  organizationId |-> jobs[i].organizationId,
                  error |-> msg,
                  dryRun |-> opts.dryRun]),
               totalPlannedPatches, totalAppliedPatches, TRUE)

\* the catch of lines 203-218
JobFailed(msg) ==
  EndIteration(Append(jobResults,
                 [tenantName |-> jobs[i].tenant.name,
                  organizationId |-> jobs[i].organizationId,
                  error |-> msg,
                  dryRun |-> opts.dryRun]),
               totalPlannedPatches, totalAppliedPatches, opts.stopOnJobError)

\* a job result that carries the identity of the first job
JobResultMutFirstJob(devs, eps, mr, toProcess, lim, appl, errs) ==
  [tenantName |-> jobs[1].tenant.name,
   organizationId |-> jobs[1].organizationId,
   entraDevices |-> Len(devs),
   action1Endpoints |-> Len(eps),
   matched |-> Len(mr.matched),
   unmatchedEntra |-> Len(mr.unmatchedEntra),
   ambiguous |-> Len(mr.ambiguous),
   patchesPlanned |-> Len(mr.patches),
   patchesToProcess |-> Len(toProcess),
   patchesApplied |-> IF opts.dryRun THEN 0 ELSE Len(appl),
   patchErrors |-> errs,
   limitedBy |-> lim,
   dryRun |-> opts.dryRun,
   samplePatches |-> SubSeq(mr.patches, 1, IF Len(mr.patches) < 3 THEN Len(mr.patches) ELSE 3)]

\* lines 183-200
\* a job result whose samples are taken from the processed list
JobResultMutSampleProcessed(devs, eps, mr, toProcess, lim, appl, errs) ==
  [tenantName |-> jobs[i].tenant.name,
   organizationId |-> jobs[i].organizationId,
   entraDevices |-> Len(devs),
   action1Endpoints |-> Len(eps),
   matched |-> Len(mr.matched),
   unmatchedEntra |-> Len(mr.unmatchedEntra),
   ambiguous |-> Len(mr.ambiguous),
   patchesPlanned |-> Len(mr.patches),
   patchesToProcess |-> Len(toProcess),
   patchesApplied |-> IF opts.dryRun THEN 0 ELSE Len(appl),
   patchErrors |-> errs,
   limitedBy |-> lim,
   dryRun |-> opts.dryRun,
   samplePatches |-> SubSeq(toProcess, 1, IF Len(toProcess) < 3 THEN Len(toProcess) ELSE 3)]
JobResult(devs, eps, mr, toProcess, lim, appl, errs) ==
  [tenantName |-> jobs[i].tenant.name,
   organizationId |-> jobs[i].organizationId,
   entraDevices |-> Len(devs),
   action1Endpoints |-> Len(eps),
   matched |-> Len(mr.matched),
   unmatchedEntra |-> Len(mr.unmatchedEntra),
   ambiguous |-> Len(mr.ambiguous),
   patchesPlanned |-> Len(mr.patches),
   patchesToProcess |-> Len(toProcess),
   patchesApplied |-> IF opts.dryRun THEN 0 ELSE Len(appl),
   patchErrors |-> errs,
   limitedBy |-> lim,
   dryRun |-> opts.dryRun,
   samplePatches |-> SubSeq(mr.patches, 1, IF Len(mr.patches) < 3 THEN Len(mr.patches) ELSE 3)]

\* Array.prototype.slice(0, end): a negative end counts from the end.
ArraySlice(seq, end) ==
  LET stop == IF end < 0 THEN (IF Len(seq) + end < 0 THEN 0 ELSE Len(seq) + end)
              ELSE (IF end > Len(seq) THEN Len(seq) ELSE end)
  IN SubSeq(seq, 1, stop)

\* The limitedBy text `name=value[, name=value]` as the list of its parts.
LimitText(parts) == Str(parts)
LimitPart(name, value) == [limit |-> name, value |-> value]

\* lines 118-124: the per-job limit
perJobLimitMutOffByOne(patches) ==
  IF Len(patches) > opts.maxPatchesPerJob
  THEN [list |-> ArraySlice(patches, opts.maxPatchesPerJob + 1),
        limitedBy |-> LimitText(<<LimitPart("maxPatchesPerJob", opts.maxPatchesPerJob)>>)]
  ELSE [list |-> patches, limitedBy |-> NULL]

perJobLimit(patches) ==
  IF Len(patches) > opts.maxPatchesPerJob
  THEN [list |-> ArraySlice(patches, opts.maxPatchesPerJob),
        limitedBy |-> LimitText(<<LimitPart("maxPatchesPerJob", opts.maxPatchesPerJob)>>)]
  ELSE [list |-> patches, limitedBy |-> NULL]

\* a global limit whose reason replaces the reason of the per-job limit
globalLimitMutOverwrite(cut) ==
  IF totalAppliedPatches + Len(cut.list) > opts.maxTotalPatches
  THEN LET allowed == IF opts.maxTotalPatches - totalAppliedPatches > 0
                      THEN opts.maxTotalPatches - totalAppliedPatches ELSE 0
       IN [list |-> ArraySlice(cut.list, allowed),
           limitedBy |->
             LimitText(<<LimitPart("maxTotalPatches", opts.maxTotalPatches)>>)]
  ELSE cut
\* lines 126-132: the global limit, applied to the outcome of the per-job limit
globalLimitMutIgnoreTotal(cut) ==
  IF Len(cut.list) > opts.maxTotalPatches
  THEN LET allowed == opts.maxTotalPatches
       IN [list |-> ArraySlice(cut.list, allowed),
           limitedBy |->
             IF Truthy(cut.limitedBy)
             THEN LimitText(Append(cut.limitedBy.v,
                                   LimitPart("maxTotalPatches", opts.maxTotalPatches)))
             ELSE LimitText(<<LimitPart("maxTotalPatches", opts.maxTotalPatches)>>)]
  ELSE cut

globalLimit(cut) ==
  IF totalAppliedPatches + Len(cut.list) > opts.maxTotalPatches
  THEN LET allowed == IF opts.maxTotalPatches - totalAppliedPatches > 0
                      THEN opts.maxTotalPatches - totalAppliedPatches ELSE 0
       IN [list |-> ArraySlice(cut.list, allowed),
           limitedBy |->
             IF Truthy(cut.limitedBy)
             THEN LimitText(Append(cut.limitedBy.v,
                                   LimitPart("maxTotalPatches", opts.maxTotalPatches)))
             ELSE LimitText(<<LimitPart("maxTotalPatches", opts.maxTotalPatches)>>)]
  ELSE cut

\* await getAction1AccessToken(...) resolves (line 52); the loop starts.
GetAccessTokenOk ==
  /\ pc = "token"
  /\ action1Token' = Str(<<"t", "o", "k", "e", "n">>)
  /\ calls' = [calls EXCEPT !.token = @ + 1]
  /\ entraDevicesCache' = IF opts.cacheEntraDevices THEN Obj(EmptyMap) ELSE NULL
  /\ IF Len(jobs) = 0
     THEN /\ pc' = "returned"
          /\ i' = 0
          /\ summary' = Summary(<<>>, 0, 0)
     ELSE /\ pc' = "devices"
          /\ i' = 1
          /\ summary' = NULL
  /\ UNCHANGED <<pureVars, cfgVars, env, opts, jobs, totalPlannedPatches, totalAppliedPatches,
                 jobResults, entraDevices, endpoints, mappingResult,
                 patchesToProcess, limitedBy, applied, patchErrors, k>>

\* a failed acquisition that is swallowed: the job loop starts without token
GetAccessTokenFailMutContinue ==
  /\ pc = "token"
  /\ calls' = [calls EXCEPT !.token = @ + 1]
  /\ pc' = "devices"
  /\ i' = 1
  /\ UNCHANGED <<pureVars, cfgVars, env, opts, jobs, action1Token, entraDevicesCache,
                 totalPlannedPatches, totalAppliedPatches, jobResults,
                 entraDevices, endpoints, mappingResult, patchesToProcess,
                 limitedBy, applied, patchErrors, k, summary>>

\* await getAction1AccessToken(...) rejects: runSync rejects.
GetAccessTokenFail ==
  /\ pc = "token"
  /\ calls' = [calls EXCEPT !.token = @ + 1]
  /\ pc' = "rejected"
  /\ UNCHANGED <<pureVars, cfgVars, env, opts, jobs, i, action1Token, entraDevicesCache,
                 totalPlannedPatches, totalAppliedPatches, jobResults,
                 entraDevices, endpoints, mappingResult, patchesToProcess,
                 limitedBy, applied, patchErrors, k, summary>>

\* a cache that never has the key
CacheHasMutNever(key) == FALSE

\* a cache lookup that takes a stored empty list for a missing entry
CacheHasMutEmptyMissing(key) ==
  /\ entraDevicesCache.t = "object"
  /\ key \in DOMAIN entraDevicesCache.v
  /\ entraDevicesCache.v[key] # <<>>
CacheHas(key) == entraDevicesCache.t = "object" /\ key \in DOMAIN entraDevicesCache.v

\* lines 89-96, the cached list is reused (an empty array is truthy)
DevicesFromCache ==
  /\ pc = "devices"
  /\ CacheHas(tenantKey(jobs[i].tenant))
  /\ entraDevices' = entraDevicesCache.v[tenantKey(jobs[i].tenant)]
  /\ pc' = "endpoints"
  /\ UNCHANGED <<pureVars, cfgVars, env, opts, jobs, i, action1Token, entraDevicesCache,
                 totalPlannedPatches, totalAppliedPatches, jobResults, endpoints,
                 mappingResult, patchesToProcess, limitedBy, applied,
                 patchErrors, k, summary, calls>>

\* what listDevicesWithGroups may return: the given directory, or any of
\* the device lists when none is given
DirectoryLists ==
  IF args.entraDevices = <<>> THEN RunDeviceLists ELSE {args.entraDevices}

\* await listDevicesWithGroups(...) resolves (lines 74 and 91-92)
ListDevicesOk ==
  /\ pc = "devices"
  /\ ~CacheHas(tenantKey(jobs[i].tenant))
  /\ \E devs \in DirectoryLists :
       /\ entraDevices' = devs
       /\ entraDevicesCache' =
            IF entraDevicesCache.t = "object"
            THEN Obj(entraDevicesCache.v @@ (tenantKey(jobs[i].tenant) :> devs))
            ELSE entraDevicesCache
  /\ calls' = [calls EXCEPT !.listDevices = @ + 1]
  /\ pc' = "endpoints"
  /\ UNCHANGED <<pureVars, cfgVars, env, opts, jobs, i, action1Token, totalPlannedPatches,
                 totalAppliedPatches, jobResults, endpoints, mappingResult,
                 patchesToProcess, limitedBy, applied, patchErrors, k, summary>>

\* await listDevicesWithGroups(...) rejects: the job fails
ListDevicesFail ==
  /\ pc = "devices"
  /\ ~CacheHas(tenantKey(jobs[i].tenant))
  /\ calls' = [calls EXCEPT !.listDevices = @ + 1]
  /\ JobFailed("listDevicesWithGroups failed")
  /\ UNCHANGED <<pureVars, cfgVars, env, opts, jobs, action1Token, entraDevicesCache>>

\* await listManagedEndpoints(...) rejects: the job fails
ListEndpointsFail ==
  /\ pc = "endpoints"
  /\ calls' = [calls EXCEPT !.listEndpoints = @ + 1]
  /\ JobFailed("listManagedEndpoints failed")
  /\ UNCHANGED <<pureVars, cfgVars, env, opts, jobs, action1Token, entraDevicesCache>>

\* line 146-147: the patch loop is not entered in a dry run, and has no
\* iteration when there is nothing to process
skipApplyMutIgnoreDryRun(toProcess) == toProcess = <<>>

skipApply(toProcess) == opts.dryRun \/ toProcess = <<>>

\* lines 142-202 for the list `toProcess` that the safety limits left: in a
\* dry run, or with nothing to process, the job result is pushed at once;
\* otherwise the patch loop starts at its first item.
StartApply(eps, mr, toProcess, lim) ==
  IF skipApply(toProcess)
  THEN EndIteration(Append(jobResults,
                      JobResult(entraDevices, eps, mr, toProcess, lim, <<>>, <<>>)),
                    totalPlannedPatches + Len(mr.patches), totalAppliedPatches,
                    FALSE)
  ELSE /\ endpoints' = eps
       /\ mappingResult' = mr
       /\ totalPlannedPatches' = totalPlannedPatches + Len(mr.patches)
       /\ patchesToProcess' = toProcess
       /\ limitedBy' = lim
       /\ applied' = <<>>
       /\ patchErrors' = <<>>
       /\ k' = 1
       /\ pc' = "patch"
       /\ UNCHANGED <<i, totalAppliedPatches, jobResults, entraDevices, summary>>

\* lines 114-132: the plan is counted and the safety limits are applied
PlanAndLimit(eps, mr, cut) == StartApply(eps, mr, cut.list, cut.limitedBy)

\* line 112 on: the mapping result of the job
Mapped(eps, mr) == PlanAndLimit(eps, mr, globalLimit(perJobLimit(mr.patches)))

\* await listManagedEndpoints(...) resolves (lines 102-108), then mapping,
\* safety limits and the start of the apply step (lines 112-146)
ListEndpointsOk ==
  /\ pc = "endpoints"
  /\ calls' = [calls EXCEPT !.listEndpoints = @ + 1]
  /\ \E eps \in RunEndpointLists :
       Mapped(eps, mapDevicesToPatches(entraDevices, eps, jobs[i].mappings))
  /\ UNCHANGED <<pureVars, cfgVars, env, opts, jobs, action1Token, entraDevicesCache>>

\* line 149
InvalidPatchItem(p) ==
  \/ ~Truthy(p.endpointId)
  \/ ~Truthy(p.patch)
  \/ p.patch.t # "object"

\* a patch loop that goes on to the next item whatever `stop` says
AfterPatchMutNoStop(appl, errs, appliedTotal, stop) ==
  IF k + 1 > Len(patchesToProcess)
  THEN EndIteration(Append(jobResults,
                      JobResult(entraDevices, endpoints, mappingResult,
                                patchesToProcess, limitedBy, appl, errs)),
                    totalPlannedPatches, appliedTotal, FALSE)
  ELSE /\ applied' = appl
       /\ patchErrors' = errs
       /\ totalAppliedPatches' = appliedTotal
       /\ k' = k + 1
       /\ UNCHANGED <<pc, i, totalPlannedPatches, jobResults, entraDevices,
                      endpoints, mappingResult, patchesToProcess, limitedBy,
                      summary>>

\* a patch loop that sends the item again after its first failure
AfterPatchMutRetry(appl, errs, appliedTotal, stop) ==
  IF Len(errs) = 1 /\ Len(patchErrors) = 0 /\ ~stop
  THEN /\ applied' = appl
       /\ patchErrors' = errs
       /\ totalAppliedPatches' = appliedTotal
       /\ k' = k
       /\ UNCHANGED <<pc, i, totalPlannedPatches, jobResults, entraDevices,
                      endpoints, mappingResult, patchesToProcess, limitedBy,
                      summary>>
  ELSE IF stop \/ k + 1 > Len(patchesToProcess)
  THEN EndIteration(Append(jobResults,
                      JobResult(entraDevices, endpoints, mappingResult,
                                patchesToProcess, limitedBy, appl, errs)),
                    totalPlannedPatches, appliedTotal, FALSE)
  ELSE /\ applied' = appl
       /\ patchErrors' = errs
       /\ totalAppliedPatches' = appliedTotal
       /\ k' = k + 1
       /\ UNCHANGED <<pc, i, totalPlannedPatches, jobResults, entraDevices,
                      endpoints, mappingResult, patchesToProcess, limitedBy,
                      summary>>
\* The rest of the patch loop after item k: `stop` is the break of line 178.
\* After the last item the job result is pushed.
AfterPatch(appl, errs, appliedTotal, stop) ==
  IF stop \/ k + 1 > Len(patchesToProcess)
  THEN EndIteration(Append(jobResults,
                      JobResult(entraDevices, endpoints, mappingResult,
                                patchesToProcess, limitedBy, appl, errs)),
                    totalPlannedPatches, appliedTotal, FALSE)
  ELSE /\ applied' = appl
       /\ patchErrors' = errs
       /\ totalAppliedPatches' = appliedTotal
       /\ k' = k + 1
       /\ UNCHANGED <<pc, i, totalPlannedPatches, jobResults, entraDevices,
                      endpoints, mappingResult, patchesToProcess, limitedBy,
                      summary>>

\* a malformed item that is passed over without a patchErrors entry
PatchNotSentMutSilent ==
  /\ pc = "patch"
  /\ LET p == patchesToProcess[k]
     IN /\ InvalidPatchItem(p) \/ DOMAIN p.patch.v = {}
        /\ AfterPatch(applied, patchErrors, totalAppliedPatches, FALSE)
  /\ UNCHANGED <<pureVars, cfgVars, env, opts, jobs, action1Token, entraDevicesCache, calls>>
\* Item k is malformed (line 149-151: recorded as a patch error) or has an
\* empty patch (lines 153-156: skipped); patchManagedEndpoint is not called.
PatchNotSent ==
  /\ pc = "patch"
  /\ LET p == patchesToProcess[k]
     IN /\ InvalidPatchItem(p) \/ DOMAIN p.patch.v = {}
        /\ IF InvalidPatchItem(p)
           THEN AfterPatch(applied,
                           Append(patchErrors,
                                  [endpointId |-> p.endpointId,
                                   error |-> "Invalid patch item: missing endpointId or patch object"]),
                           totalAppliedPatches, opts.stopOnPatchError)
           ELSE AfterPatch(applied, patchErrors, totalAppliedPatches, FALSE)
  /\ UNCHANGED <<pureVars, cfgVars, env, opts, jobs, action1Token, entraDevicesCache, calls>>

\* a patch that succeeds without being counted in totalAppliedPatches
PatchOkMutNoCount ==
  /\ pc = "patch"
  /\ LET p == patchesToProcess[k]
     IN /\ ~InvalidPatchItem(p)
        /\ DOMAIN p.patch.v # {}
        /\ AfterPatch(Append(applied, p.endpointId), patchErrors,
                      totalAppliedPatches, FALSE)
  /\ calls' = [calls EXCEPT !.patch = @ + 1]
  /\ UNCHANGED <<pureVars, cfgVars, env, opts, jobs, action1Token, entraDevicesCache>>

\* await patchManagedEndpoint(...) resolves (lines 158-172)
PatchOk ==
  /\ pc = "patch"
  /\ LET p == patchesToProcess[k]
     IN /\ ~InvalidPatchItem(p)
        /\ DOMAIN p.patch.v # {}
        /\ AfterPatch(Append(applied, p.endpointId), patchErrors,
                      totalAppliedPatches + 1, FALSE)
  /\ calls' = [calls EXCEPT !.patch = @ + 1]
  /\ UNCHANGED <<pureVars, cfgVars, env, opts, jobs, action1Token, entraDevicesCache>>

\* await patchManagedEndpoint(...) rejects (lines 173-179)
PatchFail ==
  /\ pc = "patch"
  /\ LET p == patchesToProcess[k]
     IN /\ ~InvalidPatchItem(p)
        /\ DOMAIN p.patch.v # {}
        /\ AfterPatch(applied,
                      Append(patchErrors,
                             [endpointId |-> p.endpointId,
                              error |-> "patchManagedEndpoint failed"]),
                      totalAppliedPatches, opts.stopOnPatchError)
  /\ calls' = [calls EXCEPT !.patch = @ + 1]
  /\ UNCHANGED <<pureVars, cfgVars, env, opts, jobs, action1Token, entraDevicesCache>>

NextRun ==
  \/ GetAccessTokenOk
  \/ GetAccessTokenFail
  \/ DevicesFromCache
  \/ ListDevicesOk
  \/ ListDevicesFail
  \/ ListEndpointsOk
  \/ ListEndpointsFail
  \/ PatchNotSent
  \/ PatchOk
  \/ PatchFail

SpecRun == InitRun /\ [][NextRun]_vars

\* The continuations of the awaited collaborator calls: the token request,
\* the directory listing (or the cache lookup that stands for it), the
\* endpoint listing, and the handling of one item of the patch loop.
TokenReturns == GetAccessTokenFail \/ GetAccessTokenOk
DevicesReturn == DevicesFromCache \/ ListDevicesFail \/ ListDevicesOk
EndpointsReturn == ListEndpointsFail \/ ListEndpointsOk
PatchReturns == PatchNotSent \/ PatchFail \/ PatchOk

\* a run with neither environment variable set and the default per-job limit
InitRunFair ==
  /\ InitRun
  /\ env = DefaultEnv
  /\ opts.maxPatchesPerJob = DefaultMaxPatchesPerJob

\* That run when every collaborator call that runSync awaits eventually
\* resolves or rejects: the continuation of the await is then run.
SpecRunFair ==
  /\ InitRunFair
  /\ [][NextRun]_vars
  /\ WF_vars(TokenReturns)
  /\ WF_vars(DevicesReturn)
  /\ WF_vars(EndpointsReturn)
  /\ WF_vars(PatchReturns)

\* runs against a directory in which two devices identify one endpoint
InitRunShared ==
  /\ InitRunWith(SharedNameDevices(MaxRunDevices))
  /\ env = DefaultEnv

SpecRunShared == InitRunShared /\ [][NextRun]_vars

(***************************************************************************)
(* Properties of runSync                                                   *)
(***************************************************************************)
\* a job result that is not the minimal result of a failed job
Completed(r) == "error" \notin DOMAIN r

\* the limitedBy text mentions `name=value`
Mentions(lim, name, value) ==
  /\ lim.t = "string"
  /\ \E n \in DOMAIN lim.v : lim.v[n] = LimitPart(name, value)

MentionsLimit(lim, name) ==
  /\ lim.t = "string"
  /\ \E n \in DOMAIN lim.v : lim.v[n].limit = name

C8_GlobalLimit ==
  /\ totalAppliedPatches <= opts.maxTotalPatches
  /\ pc = "returned" => summary.v.totalAppliedPatches <= opts.maxTotalPatches

\* the budget is used up over two jobs, the second one cut by the global limit
C8_Witness ==
  /\ pc = "returned"
  /\ Len(jobResults) = 2
  /\ totalAppliedPatches = opts.maxTotalPatches
  /\ Completed(jobResults[1]) /\ jobResults[1].patchesApplied > 0
  /\ Completed(jobResults[2]) /\ jobResults[2].patchesApplied > 0
  /\ MentionsLimit(jobResults[2].limitedBy, "maxTotalPatches")

\* Two consecutive jobs that planned the same number P of patches under a
\* per-job cap of at least P and a maxTotalPatches T with P <= T < 2P (the
\* proportions of 150, 150 and 200).
TwoJobsOverBudget ==
  /\ Len(jobResults) >= 2
  /\ Completed(jobResults[1])
  /\ Completed(jobResults[2])
  /\ jobResults[1].patchesPlanned > 0
  /\ jobResults[1].patchesPlanned = jobResults[2].patchesPlanned
  /\ opts.maxPatchesPerJob >= jobResults[1].patchesPlanned
  /\ opts.maxTotalPatches >= jobResults[1].patchesPlanned
  /\ opts.maxTotalPatches < 2 * jobResults[1].patchesPlanned

\* C9 as stated: then job 1 processes P and job 2 at most T - P, with job 2's
\* limitedBy mentioning maxTotalPatches.
C9_Original ==
  TwoJobsOverBudget =>
    /\ jobResults[1].patchesToProcess = jobResults[1].patchesPlanned
    /\ jobResults[2].patchesToProcess
         <= opts.maxTotalPatches - jobResults[1].patchesPlanned
    /\ Mentions(jobResults[2].limitedBy, "maxTotalPatches", opts.maxTotalPatches)

\* C9 amended: the same in apply mode when job 1 applied all its P patches.
C9_GlobalLimitAcrossJobs ==
  (/\ TwoJobsOverBudget
   /\ ~opts.dryRun
   /\ jobResults[1].patchesApplied = jobResults[1].patchesPlanned) =>
    /\ jobResults[1].patchesToProcess = jobResults[1].patchesPlanned
    /\ jobResults[2].patchesToProcess
         = opts.maxTotalPatches - jobResults[1].patchesPlanned
    /\ Mentions(jobResults[2].limitedBy, "maxTotalPatches", opts.maxTotalPatches)

\* job 1 applied its P patches and job 2 was cut to the T - P > 0 left
C9_Witness ==
  /\ TwoJobsOverBudget
  /\ ~opts.dryRun
  /\ jobResults[1].patchesApplied = jobResults[1].patchesPlanned
  /\ jobResults[2].patchesToProcess > 0
  /\ jobResults[2].patchesToProcess < jobResults[2].patchesPlanned

\* options given without dryRun are normalized to a dry run
DryRunIsDefault ==
  \A o \in RawOptions : o.dryRun = UNDEF => normalizeOptions(o).dryRun

\* C10: dry run.  With dryRun true, which is also what an omitted option is
\* normalized to, patchManagedEndpoint is never invoked, every job result has
\* patchesApplied 0 and the total of applied patches is 0, in the run and in
\* the summary.
C10_DryRun ==
  /\ DryRunIsDefault
  /\ opts.dryRun =>
       /\ calls.patch = 0
       /\ pc # "patch"
       /\ totalAppliedPatches = 0
       /\ \A j \in DOMAIN jobResults :
            Completed(jobResults[j]) => jobResults[j].patchesApplied = 0
       /\ pc = "returned" => summary.v.totalAppliedPatches = 0

\* a dry run that returned after a job with patches to process
C10_Witness ==
  /\ opts.dryRun
  /\ pc = "returned"
  /\ \E j \in DOMAIN jobResults :
       /\ Completed(jobResults[j])
       /\ jobResults[j].patchesToProcess > 1
       /\ jobResults[j].patchesApplied = 0

\* jobs a and b have the same tenantId and clientId
SharedCredential(a, b) ==
  /\ jobs[a].tenant.tenantId = jobs[b].tenant.tenantId
  /\ jobs[a].tenant.clientId = jobs[b].tenant.clientId

\* the result of a job whose directory listing threw
DevicesFailed(r) == ~Completed(r) /\ r.error = "listDevicesWithGroups failed"

\* a run of two jobs with one tenant credential has processed both jobs
TwoJobsOneCredential ==
  /\ pc = "returned"
  /\ Len(jobs) = 2
  /\ Len(jobResults) = 2
  /\ SharedCredential(1, 2)

\* C11 as stated: with caching the directory is listed exactly once across
\* the two jobs, without caching once per job.
C11_Original ==
  TwoJobsOneCredential =>
    calls.listDevices = IF opts.cacheEntraDevices THEN 1 ELSE 2

\* C11 amended: with caching, the directory is listed exactly once across the
\* two jobs when the first job's listing succeeded and the two tenants have
\* the same cache key; at any point of a run the listings made are one per
\* cached key plus one per failed listing.  Without caching the directory is
\* listed once per job that was started.
C11_CacheReuse ==
  /\ (/\ TwoJobsOneCredential
      /\ tenantKey(jobs[1].tenant) = tenantKey(jobs[2].tenant)
      /\ ~DevicesFailed(jobResults[1]))
       => calls.listDevices = IF opts.cacheEntraDevices THEN 1 ELSE 2
  /\ pc \notin {"token", "rejected"} =>
       calls.listDevices =
         IF opts.cacheEntraDevices
         THEN Cardinality(DOMAIN entraDevicesCache.v)
              + Cardinality({j \in DOMAIN jobResults : DevicesFailed(jobResults[j])})
         ELSE IF pc = "devices" THEN i - 1 ELSE i

\* both jobs of one credential completed on a single directory listing
C11_Witness ==
  /\ TwoJobsOneCredential
  /\ opts.cacheEntraDevices
  /\ Completed(jobResults[1])
  /\ Completed(jobResults[2])
  /\ jobResults[2].entraDevices > 0
  /\ calls.listDevices = 1

RECURSIVE SumSeq(_)
SumSeq(ns) == IF ns = <<>> THEN 0 ELSE Head(ns) + SumSeq(Tail(ns))

\* the patch errors of requests that were sent and rejected
SentErrors(errs) ==
  Cardinality({n \in DOMAIN errs : errs[n].error = "patchManagedEndpoint failed"})

\* the patch requests that the results pushed so far and the running job
\* account for; a failed job accounts for none
PatchCallsAccounted ==
  SumSeq([j \in DOMAIN jobResults |->
            IF Completed(jobResults[j])
            THEN (IF opts.dryRun THEN 0 ELSE jobResults[j].patchesApplied)
                 + SentErrors(jobResults[j].patchErrors)
            ELSE 0])
  + Len(applied) + SentErrors(patchErrors)

\* C12: error isolation.  The result of a job whose directory or endpoint
\* listing threw has exactly the fields tenantName, organizationId, error and
\* dryRun, of its own job; every patch request of the run belongs to a job
\* that did not fail; and with stopOnJobError false the run returns one
\* result per job, every job having been executed up to its failure or its
\* endpoint listing.
C12_ErrorIsolation ==
  /\ \A j \in DOMAIN jobResults :
       ~Completed(jobResults[j]) =>
         /\ DOMAIN jobResults[j] = {"tenantName", "organizationId", "error", "dryRun"}
         /\ jobResults[j].tenantName = jobs[j].tenant.name
         /\ jobResults[j].organizationId = jobs[j].organizationId
         /\ jobResults[j].dryRun = opts.dryRun
  /\ calls.patch = PatchCallsAccounted
  /\ (pc = "returned" /\ ~opts.stopOnJobError) =>
       /\ Len(jobResults) = Len(jobs)
       /\ calls.listEndpoints
            + Cardinality({j \in DOMAIN jobResults : DevicesFailed(jobResults[j])})
            = Len(jobs)

\* job 1 failed and job 2 went on to apply a patch
C12_Witness ==
  /\ pc = "returned"
  /\ ~opts.stopOnJobError
  /\ Len(jobResults) = 2
  /\ ~Completed(jobResults[1])
  /\ Completed(jobResults[2])
  /\ jobResults[2].patchesApplied > 0

\* C13: the shared platform token.  It is requested exactly once per run and
\* before any directory, endpoint or patch call; the job loop runs with the
\* token that was returned; when the request fails runSync rejects: there is
\* no summary, no job result and no other collaborator call.
C13_TokenOnce ==
  /\ calls.token = IF pc = "token" THEN 0 ELSE 1
  /\ pc = "token" =>
       calls.listDevices = 0 /\ calls.listEndpoints = 0 /\ calls.patch = 0
  /\ pc \in {"devices", "endpoints", "patch", "returned"} => Truthy(action1Token)
  /\ pc = "rejected" =>
       /\ summary = NULL
       /\ jobResults = <<>>
       /\ ~Truthy(action1Token)
       /\ calls.listDevices = 0 /\ calls.listEndpoints = 0 /\ calls.patch = 0

\* the token request failed and runSync rejected
C13_Witness ==
  /\ pc = "rejected"
  /\ calls.token = 1
  /\ Len(jobs) = 2

\* C14: stopOnJobError.  With the option set, as soon as the result of a
\* failed job is in the list it is the last entry and the only failed one,
\* runSync has returned the summary with that list, and the collaborator calls
\* made are those of the jobs up to the failed one.
C14_StopOnJobError ==
  (/\ opts.stopOnJobError
   /\ \E j \in DOMAIN jobResults : ~Completed(jobResults[j])) =>
    LET kk == Len(jobResults)
    IN /\ ~Completed(jobResults[kk])
       /\ \A j \in 1..(kk - 1) : Completed(jobResults[j])
       /\ pc = "returned"
       /\ summary # NULL
       /\ summary.v.results = jobResults
       /\ i = kk
       /\ calls.listDevices <= kk
       /\ calls.listEndpoints
            = kk - (IF DevicesFailed(jobResults[kk]) THEN 1 ELSE 0)
       /\ calls.patch = PatchCallsAccounted

\* the first of two jobs failed and the run returned with that one result
C14_Witness ==
  /\ opts.stopOnJobError
  /\ pc = "returned"
  /\ Len(jobs) = 2
  /\ Len(jobResults) = 1
  /\ ~Completed(jobResults[1])
  /\ summary.v.jobs = 2

\* the errors a job can fail with: those of its two listings
ListingErrors == {"listDevicesWithGroups failed", "listManagedEndpoints failed"}

\* C15: stopOnPatchError.  In apply mode with the option set the patch loop
\* never goes on after an error: a job result has at most one patchErrors
\* entry, the patches applied before it are counted in patchesApplied (all of
\* patchesToProcess when there was no error, fewer otherwise), every patch
\* request is accounted for by an applied patch or that one error, no job
\* fails because of a patch, and a run without failed job returns one result
\* per job.
C15_StopOnPatchError ==
  (opts.stopOnPatchError /\ ~opts.dryRun) =>
    /\ pc = "patch" => patchErrors = <<>>
    /\ \A j \in DOMAIN jobResults :
         LET r == jobResults[j]
         IN IF Completed(r)
            THEN /\ Len(r.patchErrors) <= 1
                 /\ r.patchesApplied + Len(r.patchErrors) <= r.patchesToProcess
                 /\ Len(r.patchErrors) = 0 => r.patchesApplied = r.patchesToProcess
            ELSE r.error \in ListingErrors
    /\ calls.patch = PatchCallsAccounted
    /\ (pc = "returned" /\ \A j \in DOMAIN jobResults : Completed(jobResults[j]))
         => Len(jobResults) = Len(jobs)

\* job 1 applied a patch, failed on the next, left a third one unsent, and
\* job 2 was processed
C15_Witness ==
  /\ opts.stopOnPatchError
  /\ ~opts.dryRun
  /\ Len(jobResults) = 2
  /\ Completed(jobResults[1])
  /\ jobResults[1].patchesApplied = 1
  /\ Len(jobResults[1].patchErrors) = 1
  /\ jobResults[1].patchErrors[1].error = "patchManagedEndpoint failed"
  /\ jobResults[1].patchesToProcess = 3
  /\ Completed(jobResults[2])
  /\ jobResults[2].patchesApplied > 0

\* the k-th result carries the identity of the k-th job
ResultsInJobOrder(results) ==
  \A n \in DOMAIN results :
    /\ n <= Len(jobs)
    /\ results[n].tenantName = jobs[n].tenant.name
    /\ results[n].organizationId = jobs[n].organizationId

\* C16 as stated: the returned summary has one result per job, in job order.
C16_Original ==
  pc = "returned" =>
    /\ Len(summary.v.results) = summary.v.jobs
    /\ ResultsInJobOrder(summary.v.results)

\* C16 amended: the returned summary counts all jobs and holds the results in
\* job order, one per job that was started: all jobs, unless stopOnJobError
\* ended the loop at a failed job, whose error entry is then the last result.
C16_OneResultPerJob ==
  pc = "returned" =>
    /\ summary.v.jobs = Len(jobs)
    /\ summary.v.results = jobResults
    /\ ResultsInJobOrder(summary.v.results)
    /\ \/ Len(summary.v.results) = Len(jobs)
       \/ /\ opts.stopOnJobError
          /\ Len(summary.v.results) >= 1
          /\ ~Completed(summary.v.results[Len(summary.v.results)])

\* a failed job followed by a completed one, both in the summary
C16_Witness ==
  /\ pc = "returned"
  /\ Len(summary.v.results) = 2
  /\ summary.v.jobs = 2
  /\ ~Completed(summary.v.results[1])
  /\ Completed(summary.v.results[2])
  /\ summary.v.results[1].organizationId = "org1"
  /\ summary.v.results[2].organizationId = "org2"

\* the planned and applied counts of a result, 0 for a failed job
PlannedOf(r) == IF Completed(r) THEN r.patchesPlanned ELSE 0
AppliedOf(r) == IF Completed(r) THEN r.patchesApplied ELSE 0

\* C17: summary totals.  On return totalPlannedPatches is the sum of
\* patchesPlanned and totalAppliedPatches the sum of patchesApplied over the
\* results; during the run the two counters are those sums plus what the
\* running job has planned and applied so far.
C17_SummaryTotals ==
  /\ pc = "returned" =>
       /\ summary.v.totalPlannedPatches
            = SumSeq([j \in DOMAIN summary.v.results |-> PlannedOf(summary.v.results[j])])
       /\ summary.v.totalAppliedPatches
            = SumSeq([j \in DOMAIN summary.v.results |-> AppliedOf(summary.v.results[j])])
  /\ totalPlannedPatches
       = SumSeq([j \in DOMAIN jobResults |-> PlannedOf(jobResults[j])])
         + (IF pc = "patch" THEN Len(mappingResult.patches) ELSE 0)
  /\ totalAppliedPatches
       = SumSeq([j \in DOMAIN jobResults |-> AppliedOf(jobResults[j])]) + Len(applied)

\* a returned run of two jobs in which patches were applied, one failed, and
\* fewer were applied than planned
C17_Witness ==
  /\ pc = "returned"
  /\ Len(summary.v.results) = 2
  /\ Completed(summary.v.results[1])
  /\ summary.v.results[1].patchesApplied > 0
  /\ Len(summary.v.results[1].patchErrors) > 0
  /\ Completed(summary.v.results[2])
  /\ summary.v.results[2].patchesApplied > 0
  /\ summary.v.totalAppliedPatches < summary.v.totalPlannedPatches

\* the patches applied by the jobs before job j
AppliedBefore(j) == SumSeq([n \in 1..(j - 1) |-> AppliedOf(jobResults[n])])

\* the per-job cut fired for the job of result r (line 121)
PerJobCutFired(r) == r.patchesPlanned > opts.maxPatchesPerJob

\* the length of the list of result r after the per-job limit
AfterPerJobLimit(r) ==
  IF PerJobCutFired(r) THEN opts.maxPatchesPerJob ELSE r.patchesPlanned

\* the global cut fired for job j (line 126)
GlobalCutFired(j) ==
  AppliedBefore(j) + AfterPerJobLimit(jobResults[j]) > opts.maxTotalPatches

\* C21: limitedBy records truncation exactly.  For every job that completes,
\* limitedBy is non-null if and only if fewer patches were processed than
\* planned; it mentions maxPatchesPerJob iff the per-job cut fired and
\* maxTotalPatches iff the global cut fired, and when both fired it is the
\* per-job reason followed by the global one.  The same holds for the job
\* whose patch loop is running.
C21_LimitedByExact ==
  /\ \A j \in DOMAIN jobResults :
       LET r == jobResults[j]
       IN Completed(r) =>
            /\ (r.limitedBy # NULL) <=> (r.patchesToProcess < r.patchesPlanned)
            /\ MentionsLimit(r.limitedBy, "maxPatchesPerJob") <=> PerJobCutFired(r)
            /\ MentionsLimit(r.limitedBy, "maxTotalPatches") <=> GlobalCutFired(j)
            /\ (PerJobCutFired(r) /\ GlobalCutFired(j)) =>
                 r.limitedBy
                   = LimitText(<<LimitPart("maxPatchesPerJob", opts.maxPatchesPerJob),
                                 LimitPart("maxTotalPatches", opts.maxTotalPatches)>>)
            /\ (r.limitedBy # NULL /\ ~GlobalCutFired(j)) =>
                 r.limitedBy
                   = LimitText(<<LimitPart("maxPatchesPerJob", opts.maxPatchesPerJob)>>)
            /\ (r.limitedBy # NULL /\ ~PerJobCutFired(r)) =>
                 r.limitedBy
                   = LimitText(<<LimitPart("maxTotalPatches", opts.maxTotalPatches)>>)
  /\ pc = "patch" =>
       ((limitedBy # NULL) <=> (Len(patchesToProcess) < Len(mappingResult.patches)))

\* a completed job that both limits cut, after a job that applied a patch
C21_Witness ==
  \E j \in DOMAIN jobResults :
    /\ j > 1
    /\ Completed(jobResults[j])
    /\ AppliedBefore(j) > 0
    /\ PerJobCutFired(jobResults[j])
    /\ GlobalCutFired(j)
    /\ jobResults[j].patchesToProcess > 0
    /\ Len(jobResults[j].limitedBy.v) = 2

\* the patch requests sent so far that the platform rejected
RejectedRequests ==
  SumSeq([j \in DOMAIN jobResults |->
            IF Completed(jobResults[j])
            THEN SentErrors(jobResults[j].patchErrors) ELSE 0])
  + SentErrors(patchErrors)

\* C22 as stated: at every point of a run totalAppliedPatches is the number
\* of patch requests sent so far, and it is 0 throughout a dry run.
C22_Original ==
  /\ totalAppliedPatches = calls.patch
  /\ opts.dryRun => totalAppliedPatches = 0

\* C22 amended: at every point of a run totalAppliedPatches is the number of
\* patch requests sent so far that succeeded, the requests sent less those
\* the platform rejected; in a dry run no request is sent and it stays 0.
C22_AppliedCounter ==
  /\ totalAppliedPatches = calls.patch - RejectedRequests
  /\ totalAppliedPatches <= calls.patch
  /\ opts.dryRun => (totalAppliedPatches = 0 /\ calls.patch = 0)

\* requests were sent, some succeeded and some were rejected
C22_Witness ==
  /\ ~opts.dryRun
  /\ totalAppliedPatches > 0
  /\ RejectedRequests > 0
  /\ calls.patch = totalAppliedPatches + RejectedRequests
\* the collaborator calls that one step of the run completes
CallsCompleted(name) == calls'[name] - calls[name]

\* A step completes at most one collaborator call, the one runSync is
\* waiting for at its position.
OneCallPerStep ==
  /\ \A name \in DOMAIN calls : CallsCompleted(name) \in {0, 1}
  /\ CallsCompleted("token") + CallsCompleted("listDevices")
       + CallsCompleted("listEndpoints") + CallsCompleted("patch") <= 1
  /\ CallsCompleted("token") = 1 => pc = "token"
  /\ CallsCompleted("listDevices") = 1 => pc = "devices"
  /\ CallsCompleted("listEndpoints") = 1 => pc = "endpoints"
  /\ CallsCompleted("patch") = 1 => pc = "patch"

\* the endpoint listings of the jobs whose result is in the list
EndpointListingsDone ==
  Cardinality({j \in DOMAIN jobResults : ~DevicesFailed(jobResults[j])})

\* the endpointIds of the items of the running patch loop before item k
HandledIds == [n \in 1..(k - 1) |-> patchesToProcess[n].endpointId]

\* the endpointIds recorded in the patch errors of the running job
ErrorIds == [n \in DOMAIN patchErrors |-> patchErrors[n].endpointId]

\* Inside job i the results of the jobs before it are in the list, the
\* endpoint listing of job i is asked for after its devices are there, patch
\* requests are sent after the listing, and the items before the current one
\* were handled one by one in list order.
JobStepsInOrder ==
  /\ pc \in {"devices", "endpoints", "patch"} =>
       /\ i \in 1..Len(jobs)
       /\ Len(jobResults) = i - 1
       /\ calls.listEndpoints = EndpointListingsDone + (IF pc = "patch" THEN 1 ELSE 0)
  /\ pc \in {"devices", "endpoints"} => (applied = <<>> /\ patchErrors = <<>> /\ k = 0)
  /\ calls.patch = PatchCallsAccounted
  /\ pc = "patch" =>
       /\ k \in 1..Len(patchesToProcess)
       /\ Len(applied) + Len(patchErrors) = k - 1
       /\ LET Failed(id) == \E n \in DOMAIN ErrorIds : ErrorIds[n] = id
              Sent(id) == ~Failed(id)
          IN /\ applied = SelectSeq(HandledIds, Sent)
             /\ ErrorIds = SelectSeq(HandledIds, Failed)

\* C23: strictly sequential execution.  At every point of a run runSync
\* waits for at most one collaborator call, the one of its position; inside a
\* job the directory listing or cache lookup comes before the endpoint
\* listing, which comes before every patch; patches are sent in the order of
\* the list; and a job starts only when the result of the job before it has
\* been appended.
C23_Sequential == []JobStepsInOrder /\ [][OneCallPerStep]_vars

\* the second job is sending its second patch after a first job with patches
C23_Witness ==
  /\ pc = "patch"
  /\ i = 2
  /\ k = 2
  /\ Len(applied) = 1
  /\ Completed(jobResults[1])
  /\ jobResults[1].patchesApplied > 0
  /\ calls.listEndpoints = 2
\* runSync has returned its summary or has rejected
Terminated == pc = "rejected" \/ (pc = "returned" /\ summary # NULL)

\* the position of runSync inside a loop iteration
PcRank(p) ==
  CASE p = "token" -> 0
    [] p = "devices" -> 1
    [] p = "endpoints" -> 2
    [] p = "patch" -> 3
    [] OTHER -> 4

\* A step ends the run, or moves on to a later job, or to a later position
\* of the same job, or to the next item of its patch loop: no job and no
\* item is gone through twice.
LoopAdvances ==
  \/ pc' \in {"returned", "rejected"}
  \/ i' = i + 1 /\ pc' = "devices"
  \/ i' = i /\ PcRank(pc') > PcRank(pc)
  \/ i' = i /\ pc' = pc /\ pc = "patch" /\ k' = k + 1

\* the items of the patch loops gone through so far
ItemsAttempted ==
  SumSeq([j \in DOMAIN jobResults |->
            IF Completed(jobResults[j]) THEN jobResults[j].patchesToProcess ELSE 0])
  + (IF pc = "patch" THEN k - 1 ELSE 0)

\* every job is listed at most once and every item sent at most once
AttemptedOnce ==
  /\ calls.listDevices <= Len(jobs)
  /\ calls.listEndpoints <= Len(jobs)
  /\ Len(jobResults) <= Len(jobs)
  /\ calls.patch <= ItemsAttempted
  /\ pc = "rejected" => ~Truthy(action1Token)

\* C24: termination.  When every collaborator call eventually returns or
\* fails, runSync eventually ends, and it ends by returning a summary unless
\* the token request failed, whatever the configuration, the options and the
\* failures of listings and patches; each job is attempted at most once and
\* each processed patch at most once.
C24_Termination ==
  /\ <>Terminated
  /\ Truthy(action1Token) ~> (pc = "returned" /\ summary # NULL)
  /\ []AttemptedOnce
  /\ [][LoopAdvances]_vars

\* a run returned its summary after a failed job and a failed patch
C24_Witness ==
  /\ pc = "returned"
  /\ summary # NULL
  /\ Len(jobResults) = 2
  /\ ~Completed(jobResults[1])
  /\ Completed(jobResults[2])
  /\ Len(jobResults[2].patchErrors) > 0
  /\ calls.patch = jobResults[2].patchesToProcess
InvalidItemText == "Invalid patch item: missing endpointId or patch object"

\* the number of entries of errs with the given text
ErrorsWith(errs, text) ==
  Cardinality({e \in DOMAIN errs : errs[e].error = text})

\* the number of malformed items among the first n items of the processed
\* list
InvalidAmong(n) ==
  Cardinality({x \in 1..n : InvalidPatchItem(patchesToProcess[x])})

\* C27: patch accounting without stopOnPatchError.  In apply mode with the
\* option unset, every item of the processed list before the current one
\* has been attempted exactly once and left either one applied entry or one
\* patchErrors entry (a malformed item one with the validation text, a
\* rejected request one with the request's error); a job never fails
\* because of a patch, and for every completed job patchesApplied plus the
\* number of patchErrors equals patchesToProcess.
C27_PatchAccounting ==
  (~opts.stopOnPatchError /\ ~opts.dryRun) =>
    /\ pc = "patch" =>
         /\ Len(applied) + Len(patchErrors) = k - 1
         /\ ErrorsWith(patchErrors, InvalidItemText) = InvalidAmong(k - 1)
         /\ \A e \in DOMAIN patchErrors :
              patchErrors[e].error
                \in {InvalidItemText, "patchManagedEndpoint failed"}
    /\ \A j \in DOMAIN jobResults :
         LET r == jobResults[j]
         IN IF Completed(r)
            THEN r.patchesApplied + Len(r.patchErrors) = r.patchesToProcess
            ELSE r.error \in ListingErrors
    /\ calls.patch = PatchCallsAccounted

\* a job went on after a malformed item and after a rejected request and
\* applied a third patch
C27_Witness ==
  /\ ~opts.stopOnPatchError
  /\ ~opts.dryRun
  /\ \E j \in DOMAIN jobResults :
       LET r == jobResults[j]
       IN /\ Completed(r)
          /\ r.patchesToProcess = 3
          /\ r.patchesApplied = 1
          /\ Len(r.patchErrors) = 2
          /\ r.patchErrors[1].error = InvalidItemText
          /\ r.patchErrors[2].error = "patchManagedEndpoint failed"
Min3(n) == IF n < 3 THEN n ELSE 3

IsPrefixOf(s, t) == Len(s) <= Len(t) /\ s = SubSeq(t, 1, Len(s))

\* the counts of a completed job result are ordered, and it carries
\* min(3, patchesPlanned) samples
CountsOrdered(r) ==
  /\ 0 <= r.patchesApplied
  /\ r.patchesApplied <= r.patchesToProcess
  /\ r.patchesToProcess <= r.patchesPlanned
  /\ r.patchesPlanned <= r.matched
  /\ r.matched <= r.entraDevices
  /\ Len(r.samplePatches) = Min3(r.patchesPlanned)

\* while a job applies its patches the processed list is a prefix of its
\* planned list
ProcessedIsPrefix ==
  pc = "patch" =>
    /\ IsPrefixOf(patchesToProcess, mappingResult.patches)
    /\ Len(applied) <= Len(patchesToProcess)
    /\ Len(mappingResult.patches) <= Len(mappingResult.matched)
    /\ Len(mappingResult.matched) <= Len(entraDevices)

\* the job result pushed at the end of the patch loop reports the lists of
\* that job: its counts are their lengths and its samples are the first
\* patches of the planned list
ResultReportsLists ==
  (pc = "patch" /\ Len(jobResults') = Len(jobResults) + 1) =>
    LET r == jobResults'[Len(jobResults')]
    IN /\ Completed(r)
       /\ r.entraDevices = Len(entraDevices)
       /\ r.matched = Len(mappingResult.matched)
       /\ r.patchesPlanned = Len(mappingResult.patches)
       /\ r.patchesToProcess = Len(patchesToProcess)
       /\ r.samplePatches
            = SubSeq(mappingResult.patches, 1, Min3(Len(mappingResult.patches)))

CachedKeys ==
  IF entraDevicesCache.t = "object" THEN DOMAIN entraDevicesCache.v ELSE {}

CurrentKey == tenantKey(jobs[i].tenant)

\* the step that ends the directory listing of the current job
DevicesStep == pc = "devices" /\ pc' # "devices"

\* the current job got its device list
DevicesStepOk == DevicesStep /\ pc' = "endpoints" /\ i' = i

\* once the run has created its cache (empty, at its start), the cache
\* changes only by a successful fetch for a key it did not hold, which adds
\* that key with the fetched list; a stored entry never changes
CacheWrittenOnce ==
  IF pc = "token"
  THEN /\ CachedKeys = {}
       /\ entraDevicesCache'.t = "object" => entraDevicesCache'.v = EmptyMap
  ELSE /\ entraDevicesCache'.t = entraDevicesCache.t
       /\ \A key \in CachedKeys :
            /\ key \in DOMAIN entraDevicesCache'.v
            /\ entraDevicesCache'.v[key] = entraDevicesCache.v[key]
       /\ entraDevicesCache' # entraDevicesCache =>
            /\ DevicesStepOk
            /\ CurrentKey \notin CachedKeys
            /\ calls'.listDevices = calls.listDevices + 1
            /\ DOMAIN entraDevicesCache'.v = CachedKeys \cup {CurrentKey}
            /\ entraDevicesCache'.v[CurrentKey] = entraDevices'

\* a job whose key is cached takes the stored list without calling the
\* directory; a job whose key is not cached calls it, and the key is
\* cached afterwards exactly if the call succeeded
CacheUsed ==
  (DevicesStep /\ opts.cacheEntraDevices) =>
    IF CurrentKey \in CachedKeys
    THEN /\ calls'.listDevices = calls.listDevices
         /\ DevicesStepOk
         /\ entraDevices' = entraDevicesCache.v[CurrentKey]
    ELSE /\ calls'.listDevices = calls.listDevices + 1
         /\ (CurrentKey \in DOMAIN entraDevicesCache'.v) <=> DevicesStepOk
         /\ ~DevicesStepOk =>
              /\ Len(jobResults') = Len(jobResults) + 1
              /\ DevicesFailed(jobResults'[Len(jobResults')])

\* the key of every job with caching on is cached unless the job's own
\* listing failed or the job has not listed yet; a failure at endpoint
\* listing leaves the key cached
CacheKeepsFetched ==
  opts.cacheEntraDevices =>
    \A j \in DOMAIN jobResults :
      (~DevicesFailed(jobResults[j]) /\ j <= Len(jobs))
        => tenantKey(jobs[j].tenant) \in CachedKeys

\* C29: the device cache stores only successful fetches and each key is
\* written at most once per run.  A listing that throws caches nothing and
\* the next job with that key calls the directory again; once a fetch
\* succeeded, also with zero devices, every later job with that key takes
\* the stored list without calling the directory, also when an earlier job
\* failed at endpoint listing.
C29_DeviceCache ==
  /\ []CacheKeepsFetched
  /\ [][CacheWrittenOnce]_vars
  /\ [][CacheUsed]_vars

\* job 1 fetched an empty device list and then failed at endpoint listing;
\* job 2, with the same key, completed on the stored empty list without a
\* second directory call
C29_Witness ==
  /\ opts.cacheEntraDevices
  /\ Len(jobResults) = 2
  /\ Len(jobs) = 2
  /\ tenantKey(jobs[1].tenant) = tenantKey(jobs[2].tenant)
  /\ ~Completed(jobResults[1])
  /\ jobResults[1].error = "listManagedEndpoints failed"
  /\ Completed(jobResults[2])
  /\ jobResults[2].entraDevices = 0
  /\ entraDevicesCache.v[tenantKey(jobs[1].tenant)] = <<>>
  /\ calls.listDevices = 1

\* job 1 failed at the directory listing and job 2, with the same key,
\* called the directory again
C29_WitnessRefetch ==
  /\ opts.cacheEntraDevices
  /\ Len(jobResults) = 2
  /\ Len(jobs) = 2
  /\ tenantKey(jobs[1].tenant) = tenantKey(jobs[2].tenant)
  /\ DevicesFailed(jobResults[1])
  /\ Completed(jobResults[2])
  /\ calls.listDevices = 2
\* the endpoints of the current job that a device's name identifies: those
\* with its full name, or, when there is none, those with its short name
IdentifiedBy(dev) ==
  IF WithFullName(endpoints, normalizeName(DeviceName(dev))) # {}
  THEN WithFullName(endpoints, normalizeName(DeviceName(dev)))
  ELSE WithShortName(endpoints, normalizeShortName(DeviceName(dev)))

IdentifiesOne(dev) == Cardinality(IdentifiedBy(dev)) = 1

\* every device that identifies a single endpoint is matched with it, in
\* device order, whether or not an earlier device has the same endpoint; the
\* planned list has one patch per matched device, in the same order, for
\* the endpoint of that device
MatchedPerDevice ==
  pc = "patch" =>
    LET m == mappingResult.matched
        p == mappingResult.patches
    IN /\ [n \in DOMAIN m |-> m[n].entraDevice]
            = SelectSeq(entraDevices, IdentifiesOne)
       /\ \A n \in DOMAIN m :
            \E e \in IdentifiedBy(m[n].entraDevice) : m[n].endpoint = endpoints[e]
       /\ Len(p) = Len(m)
       /\ \A n \in DOMAIN p :
            /\ p[n].endpointId = GetProp(m[n].endpoint.v, "id")
            /\ p[n].entraName = DeviceName(m[n].entraDevice)

\* the patch loop takes the items of the processed list one after the
\* other: a step handles item k, appends its endpoint id to applied if the
\* request succeeded, and moves to item k + 1
AppliedInListOrder ==
  (pc = "patch" /\ pc' = "patch" /\ i' = i) =>
    /\ k' = k + 1
    /\ patchesToProcess' = patchesToProcess
    /\ mappingResult' = mappingResult
    /\ \/ applied' = applied
       \/ applied' = Append(applied, patchesToProcess[k].endpointId)

\* C30: matching is per device and does not deduplicate endpoints.  When
\* several devices of a job identify the same single endpoint, each of them
\* is in matched with that endpoint, the planned list has one patch per such
\* device for the same endpointId, and the patches are applied in device
\* order.
C30_NoEndpointDedup ==
  /\ []MatchedPerDevice
  /\ [][AppliedInListOrder]_vars

\* two devices with the short name h1 under two domains were matched with
\* the endpoint h1, and the job sent a patch for each of them, the second
\* one after the patch of the device between them
C30_Witness ==
  /\ pc = "patch"
  /\ ~opts.dryRun
  /\ Len(entraDevices) = MaxRunDevices
  /\ DeviceName(entraDevices[1]) # DeviceName(entraDevices[MaxRunDevices])
  /\ Len(mappingResult.matched) = MaxRunDevices
  /\ mappingResult.matched[1].endpoint
       = mappingResult.matched[MaxRunDevices].endpoint
  /\ Len(patchesToProcess) = MaxRunDevices
  /\ patchesToProcess[1].endpointId = Num(1)
  /\ patchesToProcess[MaxRunDevices].endpointId = Num(1)
  /\ patchesToProcess[MaxRunDevices].entraName = Str(HostOtherFqdnN(1))
  /\ k = MaxRunDevices
  /\ applied = [n \in 1..(MaxRunDevices - 1) |-> Num(n)]

\* that job completed with one patch applied per device, one more than it
\* has endpoints with a patch
C30_WitnessCompleted ==
  /\ ~opts.dryRun
  /\ \E j \in DOMAIN jobResults :
       LET r == jobResults[j]
       IN /\ Completed(r)
          /\ r.matched = MaxRunDevices
          /\ r.patchesApplied = MaxRunDevices
          /\ r.action1Endpoints = MaxRunDevices
          /\ r.samplePatches[1].endpointId = Num(1)
(***************************************************************************)
(* config/config.js: loadConfig                                            *)
(***************************************************************************)
MaxOrgs == 2       \* most organization ids in one target scope of a file
MaxTargets == 2    \* most target scopes of a tenant of a file

\* organization ids, as strings of characters
OrgA == <<"a">>
OrgB == <<"b">>
OrgC == <<"c">>

isNonEmptyString(v) == Len(Trim(v)) > 0

\* the organization ids of a tenant, over all its target scopes, in order
OrgEntries(tenant) ==
  Flatten([r \in DOMAIN tenant.targets |-> tenant.targets[r].organizationIds])

\* lines 145-151: an id is seen twice within one tenant
DuplicateOrgInTenant(tenant) ==
  \E a, b \in DOMAIN OrgEntries(tenant) :
    a < b /\ OrgEntries(tenant)[a] = OrgEntries(tenant)[b]

\* a check that never finds an id of an earlier tenant
DuplicateOrgAcrossTenantsMutNever(config) == FALSE

\* lines 154-164: an id of a tenant was seen in an earlier tenant
DuplicateOrgAcrossTenants(config) ==
  \E a, b \in DOMAIN config.tenants :
    /\ a < b
    /\ \E m \in DOMAIN OrgEntries(config.tenants[a]) :
         \E n \in DOMAIN OrgEntries(config.tenants[b]) :
           OrgEntries(config.tenants[a])[m] = OrgEntries(config.tenants[b])[n]

ALLOW_DUPLICATE_TENANTS == env.ALLOW_DUPLICATE_TENANTS

\* the outcome of a call that threw
Thrown == [t |-> "throw", v |-> 0]

\* loadConfig on the parsed file: the validated configuration, or Thrown when
\* one of the checks of lines 68-182 fails.  The tenants of the files below
\* have a name, ids and distinct credential references, and the files have a
\* valid action1 section, so the checks on those always pass.
loadConfig(config, mode) ==
  IF \/ Len(config.tenants) = 0
     \/ DuplicateTenantIds(config) /\ ~ALLOW_DUPLICATE_TENANTS
     \/ \E t \in DOMAIN config.tenants :
          LET tenant == config.tenants[t]
          IN \/ Len(tenant.targets) = 0 /\ mode = "strict"
             \/ \E r \in DOMAIN tenant.targets :
                  \/ Len(tenant.targets[r].organizationIds) = 0
                  \/ \E o \in DOMAIN tenant.targets[r].organizationIds :
                       ~isNonEmptyString(tenant.targets[r].organizationIds[o])
                  \/ Len(tenant.targets[r].mappings) = 0
             \/ DuplicateOrgInTenant(tenant)
     \/ DuplicateOrgAcrossTenants(config) /\ ~ALLOW_DUPLICATE_TENANTS
  THEN Thrown
  ELSE Obj(config)

\* The files loadConfig is given: a first tenant with any target scopes over
\* two organization ids, alone or followed by a tenant with at most one scope
\* of one id; the second tenant is another directory or the same directory
\* declared again.
OrgLists == SeqsOf({OrgA, OrgB}, 0, MaxOrgs)

TargetLists(orgLists) ==
  {[r \in DOMAIN ls |-> Target(ls[r])] : ls \in SeqsOf(orgLists, 0, MaxTargets)}

SecondTargets == {<<>>, <<Target(<<OrgA>>)>>, <<Target(<<OrgB>>)>>}

LoadConfigs(targetLists) ==
  {[tenants |-> <<>>]}
  \cup {[tenants |-> <<TenantA(ts)>>] : ts \in targetLists}
  \cup {[tenants |-> <<TenantA(ts), TenantB(ts2)>>] :
          ts \in targetLists, ts2 \in SecondTargets}
  \cup {[tenants |-> <<TenantA(ts), TenantA2(ts2)>>] :
          ts \in targetLists, ts2 \in SecondTargets}

PureIdle == args = NoArgs /\ called = "none" /\ result = NULL

InitLoad ==
  /\ PureIdle
  /\ RunIdle
  /\ env \in {e \in Envs : ~e.CACHE_KEY_INCLUDE_TENANT_NAME}
  /\ cfg \in LoadConfigs(TargetLists(OrgLists))
  /\ cmd = NULL

\* loadConfig(configPath, {mode}) is called on the file
LoadConfig ==
  /\ cmd = NULL
  /\ \E mode \in {"strict", "relaxed"} :
       cmd' = [name |-> "loadConfig", mode |-> mode,
               threw |-> loadConfig(cfg, mode) = Thrown]
  /\ UNCHANGED <<pureVars, runVars, cfg>>

NextLoad == LoadConfig

SpecLoad == InitLoad /\ [][NextLoad]_vars

\* loadConfig accepted the file
Loaded == cmd # NULL /\ cmd.name = "loadConfig" /\ ~cmd.threw

\* the jobs have pairwise distinct organizationIds
DistinctOrgIds(js) ==
  \A a, b \in DOMAIN js : a # b => js[a].organizationId # js[b].organizationId

\* C18 as stated: every configuration that loadConfig accepts yields jobs
\* with pairwise distinct organizationIds.
C18_Original == Loaded => DistinctOrgIds(getSyncJobs(cfg))

\* C18 amended: every configuration that loadConfig accepts yields jobs whose
\* organizationIds are pairwise distinct within each tenant, and pairwise
\* distinct over all tenants unless ALLOW_DUPLICATE_TENANTS is set.
C18_OrgIdUniqueness ==
  Loaded =>
    /\ \A t \in DOMAIN cfg.tenants :
         DistinctOrgIds(getSyncJobs([tenants |-> <<cfg.tenants[t]>>]))
    /\ ~ALLOW_DUPLICATE_TENANTS => DistinctOrgIds(getSyncJobs(cfg))

\* a file whose only flaw is an id declared under two tenants was rejected
C18_Witness ==
  /\ cmd # NULL
  /\ cmd.name = "loadConfig"
  /\ cmd.threw
  /\ ~ALLOW_DUPLICATE_TENANTS
  /\ cfg = [tenants |-> <<TenantA(<<Target(<<OrgA>>)>>), TenantB(<<Target(<<OrgA>>)>>)>>]

(***************************************************************************)
(* config/configManager.js and cli/configCli.js: the organization commands *)
(***************************************************************************)
MaxOrgEntries == 3   \* most organization ids the file is allowed to grow to

OrgAPadded == <<" ", "a">>

NonEmpty(x) == Len(x) > 0

\* orgBelongsToOtherTenant(config, tenantObj, orgId) is not null; tenantObj
\* is config.tenants[t]
orgBelongsToOtherTenant(config, t, orgId) ==
  \E u \in DOMAIN config.tenants :
    /\ u # t
    /\ \E n \in DOMAIN OrgEntries(config.tenants[u]) :
         OrgEntries(config.tenants[u])[n] = orgId

\* target.organizationIds.push(...toAdd) and the mappings default
PushInto(target, toAdd) ==
  [target EXCEPT !.organizationIds = @ \o toAdd,
                 !.mappings = IF Len(@) = 0 THEN DefaultMappings ELSE @]

\* lines 145-187 of addOrgsToTenant, for the ids that are new to the tenant
AddNew(config, t, toAdd, skipped, separateTarget, targetIndex) ==
  IF Len(toAdd) = 0
  THEN [threw |-> FALSE, config |-> config, added |-> <<>>, skipped |-> skipped]
  ELSE IF targetIndex # NULL
  THEN IF targetIndex.v < 1 \/ targetIndex.v > Len(config.tenants[t].targets)
       THEN [threw |-> TRUE, config |-> config, added |-> <<>>, skipped |-> <<>>]
       ELSE [threw |-> FALSE,
             config |-> [config EXCEPT !.tenants[t].targets[targetIndex.v] =
                                          PushInto(@, toAdd)],
             added |-> toAdd, skipped |-> skipped]
  ELSE IF separateTarget \/ Len(config.tenants[t].targets) = 0
  THEN [threw |-> FALSE,
        config |-> [config EXCEPT !.tenants[t].targets =
                                     Append(@, [organizationIds |-> toAdd,
                                                mappings |-> DefaultMappings])],
        added |-> toAdd, skipped |-> skipped]
  ELSE [threw |-> FALSE,
        config |-> [config EXCEPT !.tenants[t].targets[1] = PushInto(@, toAdd)],
        added |-> toAdd, skipped |-> skipped]

\* lines 136-143: the ids are split by what the tenant already has
SplitByAlready(config, t, normalized, already, separateTarget, targetIndex) ==
  LET IsNew(id) == id \notin already
      IsOld(id) == id \in already
  IN AddNew(config, t, SelectSeq(normalized, IsNew), SelectSeq(normalized, IsOld),
            separateTarget, targetIndex)

\* lines 126-134: the checks on the normalized ids
AddNormalized(config, t, normalized, separateTarget, targetIndex) ==
  IF \/ Len(normalized) = 0
     \/ \E n \in DOMAIN normalized : orgBelongsToOtherTenant(config, t, normalized[n])
  THEN [threw |-> TRUE, config |-> config, added |-> <<>>, skipped |-> <<>>]
  ELSE SplitByAlready(config, t, normalized,
                      {OrgEntries(config.tenants[t])[n] :
                         n \in DOMAIN OrgEntries(config.tenants[t])},
                      separateTarget, targetIndex)

\* addOrgsToTenant(config, config.tenants[t], orgIds, {separateTarget,
\* targetIndex, defaultMappings: DEFAULT_MAPPINGS}): the outcome and the
\* configuration object after the call
addOrgsToTenant(config, t, orgIds, separateTarget, targetIndex) ==
  AddNormalized(config, t,
                SelectSeq([n \in DOMAIN orgIds |-> Trim(orgIds[n])], NonEmpty),
                separateTarget, targetIndex)

\* removeFromTarget of removeOrgFromTenant
removeFromTarget(target, id) ==
  LET Other(x) == x # id
  IN [target EXCEPT !.organizationIds = SelectSeq(@, Other)]

HasOrgs(target) == Len(target.organizationIds) > 0

\* lines 207-222 of removeOrgFromTenant for the trimmed id
RemoveId(targets, id, targetIndex) ==
  IF Len(id) = 0
  THEN [threw |-> TRUE, targets |-> targets]
  ELSE IF targetIndex # NULL
  THEN IF targetIndex.v < 1 \/ targetIndex.v > Len(targets)
       THEN [threw |-> TRUE, targets |-> targets]
       ELSE [threw |-> FALSE,
             targets |-> SelectSeq([targets EXCEPT ![targetIndex.v] =
                                                     removeFromTarget(@, id)],
                                   HasOrgs)]
  ELSE [threw |-> FALSE,
        targets |-> SelectSeq([r \in DOMAIN targets |-> removeFromTarget(targets[r], id)],
                              HasOrgs)]

\* removeOrgFromTenant(tenantObj, orgId, {targetIndex}) on tenantObj.targets
removeOrgFromTenant(targets, orgId, targetIndex) ==
  RemoveId(targets, Trim(orgId), targetIndex)

\* all organization ids of the file
EntriesOf(config) ==
  Flatten([t \in DOMAIN config.tenants |-> OrgEntries(config.tenants[t])])

\* --target-index values: absent, or a number
TargetIndexes == {NULL} \cup {Num(n) : n \in 0..MaxOrgEntries}

\* the id lists of org-add (--org-id is passed as typed, --org-ids split and
\* trimmed) and of org-select
AddIdLists ==
  { <<>>, <<OrgA>>, <<OrgB>>, <<OrgC>>, <<OrgAPadded>>, <<Blank>>,
    <<OrgA, OrgB>>, <<OrgC, OrgA>>, <<OrgB, OrgB>> }

\* The file after `tenant-add` of two tenants (configCli.js:341-347).
InitConfig ==
  /\ PureIdle
  /\ RunIdle
  /\ env = DefaultEnv
  /\ cfg = [tenants |-> <<TenantA(<<>>), TenantB(<<>>)>>]
  /\ cmd = NULL

\* org-add (configCli.js:387-405); org-select ends in the same call (474-480).
\* The file is written only when addOrgsToTenant returns.
OrgAdd ==
  /\ \E t \in DOMAIN cfg.tenants, orgIds \in AddIdLists,
        separateTarget \in BOOLEAN, targetIndex \in TargetIndexes :
       /\ Len(EntriesOf(addOrgsToTenant(cfg, t, orgIds, separateTarget,
                                        targetIndex).config)) <= MaxOrgEntries
       /\ cfg' = addOrgsToTenant(cfg, t, orgIds, separateTarget, targetIndex).config
       /\ cmd' = [name |-> "org-add",
                  threw |-> addOrgsToTenant(cfg, t, orgIds, separateTarget,
                                            targetIndex).threw]
  /\ UNCHANGED <<pureVars, runVars>>

\* org-remove (configCli.js:413-424): the file is written when
\* removeOrgFromTenant returns, whether or not the id was found
OrgRemove ==
  /\ \E t \in DOMAIN cfg.tenants, orgId \in {OrgA, OrgB, OrgC, OrgAPadded, Blank},
        targetIndex \in TargetIndexes :
       /\ cfg' = [cfg EXCEPT !.tenants[t].targets =
                               removeOrgFromTenant(@, orgId, targetIndex).targets]
       /\ cmd' = [name |-> "org-remove",
                  threw |-> removeOrgFromTenant(cfg.tenants[t].targets, orgId,
                                                targetIndex).threw]
  /\ UNCHANGED <<pureVars, runVars>>

\* org-unselect, lines 503-511: the (orgId, scope) pairs offered for removal
collect(targets, idx) ==
  Flatten([r \in DOMAIN targets |->
             IF idx # NULL /\ r # idx.v
             THEN <<>>
             ELSE [o \in DOMAIN targets[r].organizationIds |->
                     [orgId |-> targets[r].organizationIds[o], targetIndex |-> r]]])

\* what the checkbox returns: the ticked choices, in the order offered
RECURSIVE Pick(_, _)
Pick(choices, ticked) ==
  IF Len(choices) = 0 THEN <<>>
  ELSE (IF Head(ticked) THEN <<Head(choices)>> ELSE <<>>)
       \o Pick(Tail(choices), Tail(ticked))

\* lines 542-544: removeOrgFromTenant for each selected item in turn, every
\* call on the targets the previous one left; a throw ends the command
RECURSIVE removeSelected(_, _)
RemoveRest(done, rest) ==
  IF done.threw THEN done ELSE removeSelected(done.targets, rest)

removeSelected(targets, selected) ==
  IF Len(selected) = 0
  THEN [threw |-> FALSE, targets |-> targets]
  ELSE RemoveRest(removeOrgFromTenant(targets, Head(selected).orgId,
                                      Num(Head(selected).targetIndex)),
                  Tail(selected))

\* the end of org-unselect for the selection made (lines 537-547): the file
\* is written only when something was selected and no call threw
Unselected(t, selected, done) ==
  /\ cfg' = IF Len(selected) = 0 \/ done.threw THEN cfg
            ELSE [cfg EXCEPT !.tenants[t].targets = done.targets]
  /\ cmd' = [name |-> "org-unselect", threw |-> done.threw, tenant |-> t,
             selected |-> selected, before |-> cfg.tenants[t].targets]

\* org-unselect (configCli.js:492-548)
OrgUnselect ==
  /\ \E t \in DOMAIN cfg.tenants, idx \in TargetIndexes :
       \E ticked \in [DOMAIN collect(cfg.tenants[t].targets, idx) -> BOOLEAN] :
         Unselected(t, Pick(collect(cfg.tenants[t].targets, idx), ticked),
                    removeSelected(cfg.tenants[t].targets,
                                   Pick(collect(cfg.tenants[t].targets, idx), ticked)))
  /\ UNCHANGED <<pureVars, runVars>>

NextConfig ==
  \/ OrgAdd
  \/ OrgRemove
  \/ OrgUnselect

SpecConfig == InitConfig /\ [][NextConfig]_vars

(***************************************************************************)
(* Properties of the organization commands                                 *)
(***************************************************************************)
\* how many times id occurs in the sequence ids
CountIn(ids, id) == Cardinality({n \in DOMAIN ids : ids[n] = id})

\* the scopes (before the command) from which id was selected for removal
SelectedScopes(selected, id) ==
  {selected[n].targetIndex : n \in {m \in DOMAIN selected : selected[m].orgId = id}}

\* the occurrences of id in the listed scopes
CountInScopes(targets, scopes, id) ==
  SumSeq([r \in DOMAIN targets |->
            IF r \in scopes THEN CountIn(targets[r].organizationIds, id) ELSE 0])

\* C19: org-unselect removes exactly what was selected.  After the command
\* has completed, every id occurs in the tenant as often as before, less its
\* occurrences in the scopes from which it was selected: the selected ids are
\* gone from their scopes and every other id is still there.
C19_Original ==
  (cmd # NULL /\ cmd.name = "org-unselect" /\ ~cmd.threw) =>
    \A id \in {OrgA, OrgB, OrgC} :
      CountIn(OrgEntries(cfg.tenants[cmd.tenant]), id)
        = CountIn(OrgEntries([targets |-> cmd.before]), id)
          - CountInScopes(cmd.before, SelectedScopes(cmd.selected, id), id)

\* every organization id occurs at most once in the file
UniqueOrgIds(config) ==
  \A a, b \in DOMAIN EntriesOf(config) :
    a # b => EntriesOf(config)[a] # EntriesOf(config)[b]

\* C20: the mutators preserve organization-id uniqueness.  From a file in
\* which no id occurs twice, after any sequence of addOrgsToTenant and
\* removeOrgFromTenant calls no id occurs twice.
C20_Original == UniqueOrgIds(cfg)

====
